---- MODULE Spec2Model ----
(***************************************************************************)
(* A state-machine model of db/compaction_picker.cc (RocksDB compaction    *)
(* picker): the picker's in-flight bookkeeping, the leveled and FIFO       *)
(* PickCompaction procedures, the manual CompactRange procedure and        *)
(* ReleaseCompactionFiles, together with the range / expansion helpers     *)
(* they share.                                                             *)
(*                                                                         *)
(* Keys.  A user key is a natural number; an internal key is the pair      *)
(* <<user key, sequence number>>.  Internal keys order by ascending user   *)
(* key and then by DESCENDING sequence number.  A null key pointer is the  *)
(* empty tuple.                                                            *)
(*                                                                         *)
(* Files.  A file is named by its file number, an index into version.meta. *)
(* version.files_[level] lists the file numbers of a level in the order    *)
(* of the Version (key order above level 0, newest first at level 0).      *)
(* Indices into files_[level] and into files_by_size_[level] are 0-based,  *)
(* as in the source.                                                       *)
(***************************************************************************)
EXTENDS Integers, Sequences, FiniteSets, Bags, TLC

VARIABLES version,                        \* the name of the Version snapshot in use (never changes)
          being_compacted,                \* FileMetaData::being_compacted, per file number
          next_file_to_compact_by_size_,  \* Version's per-level cursor
          compactions_in_progress_,       \* per level: the registered compactions, a bag:
                                          \* one element per Compaction* inserted
          live,                           \* the bag of compactions returned and not yet released
          last                            \* what the last call did and returned

vars == <<version, being_compacted, next_file_to_compact_by_size_,
          compactions_in_progress_, live, last>>

\* The largest number of compactions that are live at the same time.
MaxLive == 2

-----------------------------------------------------------------------------
(* Keys and comparators *)

Null == <<>>

InternalKey(user_key, seq) == <<user_key, seq>>

\* InternalKeyComparator::Compare: -1, 0 or 1
icmp_Compare(a, b) ==
    IF a[1] < b[1] THEN -1
    ELSE IF a[1] > b[1] THEN 1
    ELSE IF a[2] > b[2] THEN -1
    ELSE IF a[2] < b[2] THEN 1
    ELSE 0

Min(S) == CHOOSE x \in S : \A y \in S : x <= y
Max(S) == CHOOSE x \in S : \A y \in S : x >= y

SeqRange(s) == {s[i] : i \in 1..Len(s)}

\* Comparisons of unsigned values (unsigned int, size_t, uint64_t).  A
\* negative integer n stands for the unsigned value 2^w + n of the width w at
\* hand (UINT_MAX is -1; an int converted to an unsigned type keeps its bit
\* pattern), so every negative value lies above every value that is not
\* negative.
UnsignedBelow(a, b) == IF (a < 0) = (b < 0) THEN a < b ELSE b < 0
UnsignedMin(a, b) == IF UnsignedBelow(a, b) THEN a ELSE b
UnsignedMax(a, b) == IF UnsignedBelow(a, b) THEN b ELSE a

\* size * (100 * q + m) < other * 100 for sizes that are not negative and
\* 0 <= m < 100, written with quotients so that no product leaves the
\* integers of the model: with other = size * a + b and 0 <= b < size, the
\* quotient a decides unless a = q, and then size * m < b * 100 does.
TimesBelow(size, q, m, other) ==
    IF size = 0 THEN 0 < other
    ELSE IF other \div size > q THEN TRUE
    ELSE IF other \div size < q THEN FALSE
    ELSE (size \div 100) * m + ((size % 100) * m) \div 100 < other - size * q

\* What a call comes to once it has read outside a vector: the behaviour of
\* the program is undefined from there on.
UndefinedBehaviour == [undefined |-> TRUE]

-----------------------------------------------------------------------------
(* The Version snapshots and option sets the model starts from *)

FileMetaData(level, smallest, largest, compensated_file_size, file_size) ==
    [level |-> level, smallest |-> smallest, largest |-> largest,
     compensated_file_size |-> compensated_file_size, file_size |-> file_size]

kCompactionStyleLevel == "level"
kCompactionStyleUniversal == "universal"
kCompactionStyleFIFO == "fifo"

\* Version::files_[level]: the file numbers of the level, in the order of meta
LevelFiles(meta, level) ==
    SelectSeq([i \in 1..Len(meta) |-> i], LAMBDA f : meta[f].level = level)

\* Version::UpdateFilesBySize: the 0-based indices of a level's files in
\* descending compensated size (stable on ties).
RECURSIVE SortBySize(_, _, _)
SortBySize(meta, files, left) ==
    IF left = {} THEN <<>>
    ELSE LET best == CHOOSE i \in left : \A j \in left :
                        \/ meta[files[i + 1]].compensated_file_size
                             > meta[files[j + 1]].compensated_file_size
                        \/ /\ meta[files[i + 1]].compensated_file_size
                                = meta[files[j + 1]].compensated_file_size
                           /\ i <= j
         IN <<best>> \o SortBySize(meta, files, left \ {best})

MakeVersion(name, style, num_levels, meta, options, manual_levels, manual_keys) ==
    LET files == [l \in 0..(num_levels - 1) |-> LevelFiles(meta, l)]
    IN [name |-> name,
        style |-> style,
        num_levels |-> num_levels,
        meta |-> meta,
        files_ |-> files,
        files_by_size_ |-> [l \in 0..(num_levels - 1) |->
                              SortBySize(meta, files[l], 0..(Len(files[l]) - 1))],
        options |-> options,
        manual_levels |-> manual_levels,
        manual_keys |-> manual_keys]

Options(trigger, max_bytes, expanded_limit, max_file_size, factor, fifo_size) ==
    [level0_file_num_compaction_trigger |-> trigger,
     max_bytes_for_level |-> max_bytes,
     expanded_compaction_byte_size_limit |-> expanded_limit,
     max_file_size_for_level |-> max_file_size,
     source_compaction_factor |-> factor,
     max_table_files_size |-> fifo_size]

\* Scenarios S1/S2 of the specification: 7 levels, level 1 = A=[a,c] 100,
\* B=[d,f] 400, C=[g,i] 200, level 2 = X=[e,h] 1000; level-1 score 700/538 = 1.3.
VersionS1 ==
    MakeVersion("S1", kCompactionStyleLevel, 7,
        << FileMetaData(1, <<1, 12>>, <<3, 11>>, 100, 100),
           FileMetaData(1, <<4, 14>>, <<6, 13>>, 400, 400),
           FileMetaData(1, <<7, 16>>, <<9, 15>>, 200, 200),
           FileMetaData(2, <<5, 2>>, <<8, 1>>, 1000, 1000) >>,
        Options(4, [l \in 0..6 |-> IF l = 1 THEN 538 ELSE 2000],
                [l \in 0..6 |-> 1500], [l \in 0..6 |-> 300], 1, 0),
        {1, 2}, {5})

\* Level 0 with overlapping files [5,6] and [6,7] and a separate file [1,2];
\* level 1 with a user key (3) that spans two files and a file [7,8] under the
\* level-0 group; one parent at level 2.
VersionL0 ==
    MakeVersion("L0", kCompactionStyleLevel, 3,
        << FileMetaData(0, <<5, 30>>, <<6, 29>>, 30, 30),
           FileMetaData(0, <<6, 28>>, <<7, 27>>, 20, 20),
           FileMetaData(0, <<1, 26>>, <<2, 25>>, 10, 10),
           FileMetaData(1, <<1, 20>>, <<3, 19>>, 50, 50),
           FileMetaData(1, <<3, 18>>, <<4, 17>>, 40, 40),
           FileMetaData(1, <<7, 16>>, <<8, 15>>, 60, 60),
           FileMetaData(2, <<7, 8>>, <<9, 7>>, 90, 90) >>,
        Options(2, [l \in 0..2 |-> IF l = 1 THEN 75 ELSE 1000],
                [l \in 0..2 |-> 1000], [l \in 0..2 |-> 60], 1, 0),
        {0}, {6})

\* Level 0 with a chain A=[5,6], D=[6,7], E=[7,8] around the largest file A
\* and a file B=[9,10] apart from it; P=[4,10] at level 1 lies under all four.
VersionL0Grow ==
    MakeVersion("L0Grow", kCompactionStyleLevel, 3,
        << FileMetaData(0, <<5, 30>>, <<6, 29>>, 30, 30),
           FileMetaData(0, <<6, 28>>, <<7, 27>>, 20, 20),
           FileMetaData(0, <<7, 26>>, <<8, 25>>, 15, 15),
           FileMetaData(0, <<9, 24>>, <<10, 23>>, 10, 10),
           FileMetaData(1, <<1, 20>>, <<3, 19>>, 40, 40),
           FileMetaData(1, <<4, 18>>, <<10, 17>>, 50, 50),
           FileMetaData(2, <<4, 8>>, <<11, 7>>, 90, 90) >>,
        Options(2, [l \in 0..2 |-> IF l = 1 THEN 75 ELSE 1000],
                [l \in 0..2 |-> 1000], [l \in 0..2 |-> 60], 1, 0),
        {1}, {4})

\* Level 1 with a chain of files sharing boundary user keys (4 and 6) and
\* parents that allow or forbid lateral growth.
VersionChain ==
    MakeVersion("Chain", kCompactionStyleLevel, 3,
        << FileMetaData(1, <<1, 30>>, <<2, 29>>, 30, 30),
           FileMetaData(1, <<3, 28>>, <<4, 27>>, 70, 70),
           FileMetaData(1, <<4, 26>>, <<6, 25>>, 20, 20),
           FileMetaData(1, <<6, 24>>, <<7, 23>>, 10, 10),
           FileMetaData(1, <<8, 22>>, <<9, 21>>, 40, 40),
           FileMetaData(2, <<1, 10>>, <<5, 9>>, 100, 100),
           FileMetaData(2, <<7, 8>>, <<8, 7>>, 90, 90),
           FileMetaData(2, <<9, 6>>, <<9, 5>>, 80, 80) >>,
        Options(4, [l \in 0..2 |-> 20], [l \in 0..2 |-> 400],
                [l \in 0..2 |-> 50], 2, 0),
        {1, 2}, {3})

\* Lateral growth that is accepted: the parent Y covers both level-1 files.
VersionGrow ==
    MakeVersion("Grow", kCompactionStyleLevel, 3,
        << FileMetaData(0, <<7, 30>>, <<8, 29>>, 10, 10),
           FileMetaData(0, <<1, 28>>, <<1, 27>>, 5, 5),
           FileMetaData(1, <<1, 20>>, <<2, 19>>, 50, 50),
           FileMetaData(1, <<3, 18>>, <<4, 17>>, 60, 60),
           FileMetaData(1, <<6, 16>>, <<8, 15>>, 20, 20),
           FileMetaData(2, <<1, 10>>, <<4, 9>>, 100, 100),
           FileMetaData(2, <<5, 8>>, <<5, 7>>, 30, 30),
           FileMetaData(2, <<7, 6>>, <<9, 5>>, 40, 40) >>,
        Options(1, [l \in 0..2 |-> 30], [l \in 0..2 |-> 300],
                [l \in 0..2 |-> 100], 1, 0),
        {1}, {7})

\* Four disjoint level-1 files over two parents; level 1 stays over its limit
\* while any of its files is free.
VersionWide ==
    MakeVersion("Wide", kCompactionStyleLevel, 3,
        << FileMetaData(1, <<1, 30>>, <<2, 29>>, 40, 40),
           FileMetaData(1, <<3, 28>>, <<4, 27>>, 30, 30),
           FileMetaData(1, <<5, 26>>, <<6, 25>>, 20, 20),
           FileMetaData(1, <<7, 24>>, <<8, 23>>, 10, 10),
           FileMetaData(2, <<2, 10>>, <<3, 9>>, 50, 50),
           FileMetaData(2, <<6, 8>>, <<6, 7>>, 50, 50) >>,
        Options(4, [l \in 0..2 |-> 10], [l \in 0..2 |-> 300],
                [l \in 0..2 |-> 100], 1, 0),
        {1}, {4})

\* Level 2 scores above what is left of level 1 once B=[4,6] is picked with
\* the only level-2 file as its parent; A=[1,3] has no parent.
VersionBlocked ==
    MakeVersion("Blocked", kCompactionStyleLevel, 4,
        << FileMetaData(1, <<1, 12>>, <<3, 11>>, 100, 100),
           FileMetaData(1, <<4, 14>>, <<6, 13>>, 400, 400),
           FileMetaData(2, <<5, 2>>, <<8, 1>>, 1000, 1000) >>,
        Options(4, [l \in 0..3 |-> IF l = 1 THEN 100 ELSE 400],
                [l \in 0..3 |-> 1500], [l \in 0..3 |-> 300], 1, 0),
        {2}, {5})

\* Scenario S6 of the specification: level 2 = Q1=[aa,bb], Q2=[cc,dd],
\* Q3=[ee,ff] of 300 each (user keys 1..6), MaxFileSizeForLevel(2) *
\* source_compaction_factor = 250 * 2 = 500; manual compactions of level 2.
VersionS6 ==
    MakeVersion("S6", kCompactionStyleLevel, 4,
        << FileMetaData(2, <<1, 12>>, <<2, 11>>, 300, 300),
           FileMetaData(2, <<3, 14>>, <<4, 13>>, 300, 300),
           FileMetaData(2, <<5, 16>>, <<6, 15>>, 300, 300) >>,
        Options(4, [l \in 0..3 |-> 2000], [l \in 0..3 |-> 1500],
                [l \in 0..3 |-> 250], 2, 0),
        {2}, {1, 3, 6})

\* Scenario S5 of the specification: FIFO, F1=600 newest, F2=300, F3=400 oldest.
VersionS5 ==
    MakeVersion("S5", kCompactionStyleFIFO, 1,
        << FileMetaData(0, <<1, 30>>, <<9, 29>>, 600, 600),
           FileMetaData(0, <<1, 20>>, <<9, 19>>, 300, 300),
           FileMetaData(0, <<1, 10>>, <<9, 9>>, 400, 400) >>,
        Options(4, [l \in 0..0 |-> 1000], [l \in 0..0 |-> 1000],
                [l \in 0..0 |-> 1000], 1, 1000),
        {}, {})

\* FIFO with a cap that needs two and three deletions, and one below the cap.
VersionFifoSmall ==
    MakeVersion("FifoSmall", kCompactionStyleFIFO, 1,
        << FileMetaData(0, <<1, 30>>, <<9, 29>>, 600, 600),
           FileMetaData(0, <<1, 20>>, <<9, 19>>, 300, 300),
           FileMetaData(0, <<1, 10>>, <<9, 9>>, 400, 400) >>,
        Options(4, [l \in 0..0 |-> 1000], [l \in 0..0 |-> 1000],
                [l \in 0..0 |-> 1000], 1, 700),
        {}, {})

VersionFifoIdle ==
    MakeVersion("FifoIdle", kCompactionStyleFIFO, 1,
        << FileMetaData(0, <<1, 30>>, <<9, 29>>, 600, 600),
           FileMetaData(0, <<1, 20>>, <<9, 19>>, 300, 300) >>,
        Options(4, [l \in 0..0 |-> 1000], [l \in 0..0 |-> 1000],
                [l \in 0..0 |-> 1000], 1, 900),
        {}, {})

\* FIFO over a column family of two levels (the second one empty), where
\* MaxOutputLevel() is below the last level.
VersionFifoTwo ==
    MakeVersion("FifoTwo", kCompactionStyleFIFO, 2,
        << FileMetaData(0, <<1, 30>>, <<9, 29>>, 600, 600),
           FileMetaData(0, <<1, 20>>, <<9, 19>>, 300, 300) >>,
        Options(4, [l \in 0..1 |-> 1000], [l \in 0..1 |-> 1000],
                [l \in 0..1 |-> 1000], 1, 700),
        {}, {})

\* The column families the sanitizer is run on.
SanitizeVersions == {VersionL0, VersionChain, VersionGrow, VersionFifoTwo}

\* Column families of the pluggable style: one file at level 0 over two
\* files of level 1 and one of level 2, with a Compactor and without one.
\* CompactRange of this style takes no key range from the Version.
kCompactionStylePluggable == "pluggable"

PluggableVersion(name, compactor_) ==
    [compactor_ |-> compactor_]
        @@ MakeVersion(name, kCompactionStylePluggable, 3,
              << FileMetaData(0, <<2, 30>>, <<3, 29>>, 10, 10),
                 FileMetaData(1, <<1, 20>>, <<2, 19>>, 50, 50),
                 FileMetaData(1, <<3, 18>>, <<4, 17>>, 40, 40),
                 FileMetaData(2, <<1, 10>>, <<5, 9>>, 90, 90) >>,
              Options(4, [l \in 0..2 |-> 1000], [l \in 0..2 |-> 1000],
                      [l \in 0..2 |-> 100], 1, 0),
              {}, {})

PluggableVersions ==
    {PluggableVersion("Pluggable", TRUE), PluggableVersion("PluggableNone", FALSE)}

Versions == {VersionS1, VersionL0, VersionChain, VersionGrow, VersionWide,
             VersionBlocked,
             VersionS5, VersionFifoSmall, VersionFifoIdle}

-----------------------------------------------------------------------------
(* The Version snapshots of the universal picker *)

\* UINT_MAX as the universal picker passes it for "no ratio" and "no limit".
\* The model's integers are narrower than unsigned int, so the value is kept
\* as the all-ones pattern read as an int; the comparisons below take it as
\* the largest unsigned value.
UINT_MAX == -1

kCompactionStopStyleSimilarSize == "similar"
kCompactionStopStyleTotalSize == "total"

\* compaction_options_universal
UniversalOptions(size_ratio, min_merge_width, max_merge_width, max_size_amplification_percent, stop_style) ==
    [size_ratio |-> size_ratio,
     min_merge_width |-> min_merge_width,
     max_merge_width |-> max_merge_width,
     max_size_amplification_percent |-> max_size_amplification_percent,
     stop_style |-> stop_style]

\* A level-0 file of the universal style: every file spans the whole key
\* space and holds the sequence numbers smallest_seqno..largest_seqno.
UniversalFile(smallest_seqno, largest_seqno, compensated_file_size, file_size) ==
    [smallest_seqno |-> smallest_seqno, largest_seqno |-> largest_seqno]
        @@ FileMetaData(0, <<1, largest_seqno>>, <<9, smallest_seqno>>,
                        compensated_file_size, file_size)

\* A universal Version: one level, files newest first.
UniversalVersion(name, meta, trigger, universal) ==
    [universal |-> universal]
        @@ MakeVersion(name, kCompactionStyleUniversal, 1, meta,
                       Options(trigger, [l \in 0..0 |-> 1000000], [l \in 0..0 |-> 1000000],
                               [l \in 0..0 |-> 1000000], 1, 0),
                       {0}, {5})

\* Scenario S3 of the specification: oldest O = 1000, then A, B, C = 100 each;
\* max_size_amplification_percent = 25.
VersionS3 ==
    UniversalVersion("S3",
        << UniversalFile(31, 40, 100, 100),
           UniversalFile(21, 30, 100, 100),
           UniversalFile(11, 20, 100, 100),
           UniversalFile(1, 10, 1000, 1000) >>,
        4, UniversalOptions(1, 2, 8, 25, kCompactionStopStyleTotalSize))

\* Scenario S4 of the specification: 100, 110, 120, 5000, 5500 newest first;
\* size_ratio 20, similar-size stop, widths 2..8.
VersionS4 ==
    UniversalVersion("S4",
        << UniversalFile(41, 50, 100, 100),
           UniversalFile(31, 40, 110, 110),
           UniversalFile(21, 30, 120, 120),
           UniversalFile(11, 20, 5000, 5000),
           UniversalFile(1, 10, 5500, 5500) >>,
        4, UniversalOptions(20, 2, 8, 200, kCompactionStopStyleSimilarSize))

\* Every file is ten times its newer neighbour: neither size amplification
\* nor the size ratio asks for work, the file count does.
VersionSteep ==
    UniversalVersion("Steep",
        << UniversalFile(31, 40, 10, 10),
           UniversalFile(21, 30, 100, 100),
           UniversalFile(11, 20, 1000, 1000),
           UniversalFile(1, 10, 10000, 10000) >>,
        2, UniversalOptions(1, 2, 8, 200, kCompactionStopStyleTotalSize))

\* The two newest files carry most of the size above the oldest.
VersionAmp ==
    UniversalVersion("Amp",
        << UniversalFile(31, 40, 300, 300),
           UniversalFile(21, 30, 300, 300),
           UniversalFile(11, 20, 100, 100),
           UniversalFile(1, 10, 500, 500) >>,
        3, UniversalOptions(1, 2, 8, 100, kCompactionStopStyleTotalSize))

\* Five equal files, runs of exactly three.
VersionWidth ==
    UniversalVersion("Width",
        << UniversalFile(41, 50, 100, 100),
           UniversalFile(31, 40, 100, 100),
           UniversalFile(21, 30, 100, 100),
           UniversalFile(11, 20, 100, 100),
           UniversalFile(1, 10, 100, 100) >>,
        2, UniversalOptions(1, 3, 3, 1000, kCompactionStopStyleTotalSize))

\* Fewer files than the trigger.
VersionFew ==
    UniversalVersion("Few",
        << UniversalFile(11, 20, 100, 100),
           UniversalFile(1, 10, 100, 100) >>,
        4, UniversalOptions(1, 2, 8, 25, kCompactionStopStyleTotalSize))

\* A small newest file that the size ratio keeps out of the run of its
\* three equal elders.
VersionStraggler ==
    UniversalVersion("Straggler",
        << UniversalFile(31, 40, 10, 10),
           UniversalFile(21, 30, 100, 100),
           UniversalFile(11, 20, 100, 100),
           UniversalFile(1, 10, 100, 100) >>,
        2, UniversalOptions(1, 2, 8, 1000, kCompactionStopStyleTotalSize))

\* Files whose compensated size exceeds their size (entries that delete):
\* the run 100, 110, 450 is admitted by sizes 110 <= 120 and 450 <= 480, the
\* compensated sizes 100, 300, 450 add up to the candidate size.
VersionTombstones ==
    UniversalVersion("Tombstones",
        << UniversalFile(31, 40, 100, 100),
           UniversalFile(21, 30, 300, 110),
           UniversalFile(11, 20, 450, 450),
           UniversalFile(1, 10, 2000, 2000) >>,
        2, UniversalOptions(20, 2, 8, 1000, kCompactionStopStyleTotalSize))

\* The same under the similar-size stop: the fourth file, of size 100, is
\* too small for its predecessor of compensated size 150.
VersionTombstonesSimilar ==
    UniversalVersion("TombstonesSimilar",
        << UniversalFile(41, 50, 100, 100),
           UniversalFile(31, 40, 130, 110),
           UniversalFile(21, 30, 150, 150),
           UniversalFile(11, 20, 100, 100),
           UniversalFile(1, 10, 5000, 5000) >>,
        2, UniversalOptions(20, 2, 8, 1000, kCompactionStopStyleSimilarSize))

\* A file of size 1 next to an oldest file more than 42949673.95 times its
\* size, behind two files of size 100.
VersionExtreme ==
    UniversalVersion("Extreme",
        << UniversalFile(31, 40, 100, 100),
           UniversalFile(21, 30, 100, 100),
           UniversalFile(11, 20, 1, 1),
           UniversalFile(1, 10, 42949674, 42949674) >>,
        1, UniversalOptions(1, 2, 8, 25, kCompactionStopStyleTotalSize))

\* The layouts the file-count sub-policy is looked at in.
FileCountVersions ==
    {VersionSteep, VersionWidth, VersionStraggler, VersionExtreme}

\* The layouts the size-ratio and file-count sub-policies are looked at in.
ReadAmpVersions ==
    {VersionS4, VersionSteep, VersionWidth, VersionStraggler,
     VersionTombstones, VersionTombstonesSimilar}

UniversalVersions ==
    {VersionS3, VersionS4, VersionSteep, VersionAmp, VersionWidth, VersionFew,
     VersionStraggler}

-----------------------------------------------------------------------------
(* Accessors of the Version and of the options *)

NumberLevels == version.num_levels
Levels == 0..(NumberLevels - 1)
FileNumbers == 1..Len(version.meta)
Meta(f) == version.meta[f]
FilesAt(level) == version.files_[level]

MaxBytesForLevel(level) == version.options.max_bytes_for_level[level]
MaxFileSizeForLevel(level) == version.options.max_file_size_for_level[level]
ExpandedCompactionByteSizeLimit(level) ==
    version.options.expanded_compaction_byte_size_limit[level]

-----------------------------------------------------------------------------
(* The Version's range queries *)

\* Whether file f's user-key range meets [ub, ue]; a missing bound is open.
UserRangeOverlaps(f, has_begin, ub, has_end, ue) ==
    /\ ~(has_begin /\ Meta(f).largest[1] < ub)
    /\ ~(has_end /\ Meta(f).smallest[1] > ue)

\* Version::GetOverlappingInputs at level 0: a file that overlaps and reaches
\* beyond a given bound widens that bound and the search restarts.
RECURSIVE Level0OverlappingInputs(_, _, _, _)
Level0OverlappingInputs(has_begin, ub, has_end, ue) ==
    LET hit == {f \in SeqRange(FilesAt(0)) :
                  UserRangeOverlaps(f, has_begin, ub, has_end, ue)}
    IN IF \E f \in hit : \/ has_begin /\ Meta(f).smallest[1] < ub
                         \/ has_end /\ Meta(f).largest[1] > ue
       THEN Level0OverlappingInputs(
                has_begin,
                IF has_begin THEN Min({ub} \cup {Meta(f).smallest[1] : f \in hit}) ELSE ub,
                has_end,
                IF has_end THEN Max({ue} \cup {Meta(f).largest[1] : f \in hit}) ELSE ue)
       ELSE SelectSeq(FilesAt(0), LAMBDA f : f \in hit)

\* Version::GetOverlappingInputs(level, begin, end, &inputs): the files of the
\* level whose user-key range meets [begin, end], in the level's order.
GetOverlappingInputs(level, begin, end) ==
    LET has_begin == begin # Null
        has_end == end # Null
        ub == IF has_begin THEN begin[1] ELSE 0
        ue == IF has_end THEN end[1] ELSE 0
    IN IF level = 0
       THEN Level0OverlappingInputs(has_begin, ub, has_end, ue)
       ELSE SelectSeq(FilesAt(level),
                      LAMBDA f : UserRangeOverlaps(f, has_begin, ub, has_end, ue))

\* The 0-based position of file f in files_[level] (Version's FindFile on a key of f).
RECURSIVE FindFileFrom(_, _, _)
FindFileFrom(level, f, i) ==
    IF FilesAt(level)[i + 1] = f THEN i ELSE FindFileFrom(level, f, i + 1)

FindFile(level, f) == FindFileFrom(level, f, 0)

\* Version::HasOverlappingUserKey(inputs, level): the file after the last input
\* starts with, or the file before the first input ends with, a user key of the inputs.
HasOverlappingUserKey(inputs, level) ==
    IF inputs = <<>> \/ level = 0 THEN FALSE
    ELSE LET files == FilesAt(level)
             last_file == FindFile(level, inputs[Len(inputs)])
             first_file == FindFile(level, inputs[1])
         IN \/ /\ last_file < Len(files) - 1
               /\ Meta(files[last_file + 1]).largest[1]
                    = Meta(files[last_file + 2]).smallest[1]
            \/ /\ 0 < first_file
               /\ Meta(files[first_file + 1]).smallest[1]
                    = Meta(files[first_file]).largest[1]

-----------------------------------------------------------------------------
(* Range utilities of the picker *)

RECURSIVE TotalCompensatedFileSize(_)
TotalCompensatedFileSize(files) ==
    IF files = <<>> THEN 0
    ELSE Meta(Head(files)).compensated_file_size + TotalCompensatedFileSize(Tail(files))

RECURSIVE GetRangeLoop(_, _, _, _)
GetRangeLoop(inputs, i, smallest, largest) ==
    IF i > Len(inputs) THEN <<smallest, largest>>
    ELSE LET f == Meta(inputs[i])
         IN GetRangeLoop(inputs, i + 1,
               IF icmp_Compare(f.smallest, smallest) < 0 THEN f.smallest ELSE smallest,
               IF icmp_Compare(f.largest, largest) > 0 THEN f.largest ELSE largest)

\* CompactionPicker::GetRange(inputs, &smallest, &largest); inputs is not empty.
GetRange(inputs) ==
    GetRangeLoop(inputs, 2, Meta(inputs[1]).smallest, Meta(inputs[1]).largest)

\* CompactionPicker::GetRange(inputs1, inputs2, &smallest, &largest)
GetRange2(inputs1, inputs2) == GetRange(inputs1 \o inputs2)

\* GetRange followed by GetOverlappingInputs(level, &smallest, &largest), as
\* the picker calls them in pairs: the files of level under the given range.
OverlappingRange(level, range) == GetOverlappingInputs(level, range[1], range[2])

\* A FilesInCompaction that looks at the first file only.
FilesInCompactionFirstOnly(files) == files # <<>> /\ being_compacted[files[1]]

\* CompactionPicker::FilesInCompaction
FilesInCompaction(files) == \E i \in 1..Len(files) : being_compacted[files[i]]

\* A ParentRangeInCompaction that never finds a busy parent.
ParentRangeNeverInCompaction(smallest, largest, level) == FALSE

\* CompactionPicker::ParentRangeInCompaction
ParentRangeInCompaction(smallest, largest, level) ==
    FilesInCompaction(GetOverlappingInputs(level + 1, smallest, largest))

-----------------------------------------------------------------------------
(* Compaction objects *)

\* A Compaction as the picker builds it; base_index_ is the seed's index in
\* files_[level], or -1.
NewCompaction(level, output_level) ==
    [level |-> level, output_level |-> output_level,
     inputs0 |-> <<>>, inputs1 |-> <<>>, grandparents_ |-> <<>>,
     base_index_ |-> -1, is_manual_compaction_ |-> FALSE,
     is_deletion_compaction_ |-> FALSE]

\* The null Compaction pointer.
nullptr == NewCompaction(-1, -1)

\* Compaction::MarkFilesBeingCompacted(mark) applied to the flags bc
MarkFilesBeingCompacted(c, mark, bc) ==
    [f \in DOMAIN bc |->
        IF f \in SeqRange(c.inputs0) \cup SeqRange(c.inputs1) THEN mark ELSE bc[f]]

\* CompactionPicker::SizeBeingCompacted: per level below the last, the
\* compensated size of inputs_[0] of the registered compactions.
RECURSIVE SumSizes(_)
SumSizes(cs) ==
    IF cs = EmptyBag THEN 0
    ELSE LET c == CHOOSE x \in BagToSet(cs) : TRUE
         IN TotalCompensatedFileSize(c.inputs0) + SumSizes(cs (-) SetToBag({c}))

SizeBeingCompacted ==
    [level \in 0..(NumberLevels - 2) |->
        SumSizes(compactions_in_progress_[level])]

-----------------------------------------------------------------------------
(* Version::ComputeCompactionScore *)

\* A score is the fraction num / den (den > 0).
ScoreLess(a, b) == a.num * b.den < b.num * a.den

\* A ScoreAtLeastOne that lets every level with something left through.
ScorePositive(a) == a.num > 0

ScoreAtLeastOne(a) == a.num >= a.den

\* The score of one level: at level 0 the number of files not being compacted
\* over the file-number trigger, above it the bytes not being compacted over
\* the level's byte target.
LevelScore(level, size_being_compacted) ==
    IF level = 0
    THEN [level |-> 0,
          num |-> Cardinality({f \in SeqRange(FilesAt(0)) : ~being_compacted[f]}),
          den |-> version.options.level0_file_num_compaction_trigger]
    ELSE [level |-> level,
          num |-> TotalCompensatedFileSize(FilesAt(level)) - size_being_compacted[level],
          den |-> MaxBytesForLevel(level)]

\* The exchange sort of ComputeCompactionScore: higher scores first.
RECURSIVE SortScores(_, _, _)
SortScores(s, i, j) ==
    IF i > Len(s) - 1 THEN s
    ELSE IF j > Len(s) THEN SortScores(s, i + 1, i + 2)
    ELSE IF ScoreLess(s[i], s[j])
         THEN SortScores([s EXCEPT ![i] = s[j], ![j] = s[i]], i, j + 1)
         ELSE SortScores(s, i, j + 1)

\* compaction_level_[i] / compaction_score_[i] for i in 0..NumberLevels-2,
\* as the sequence of [level, num, den], highest score first.
ComputeCompactionScore(size_being_compacted) ==
    SortScores([i \in 1..(NumberLevels - 1) |-> LevelScore(i - 1, size_being_compacted)],
               1, 2)

-----------------------------------------------------------------------------
(* The expansion engine *)

\* The do-while loop of ExpandWhileOverlapping: inputs_[0] is replaced by the
\* files overlapping its range (grown) until the set stops growing.
RECURSIVE ExpandLoop(_, _)
\* An ExpandStep that stops after the first pass.
ExpandStepOnce(level, old, grown) == grown

ExpandStep(level, old, grown) ==
    IF Len(grown) > Len(old) THEN ExpandLoop(level, grown) ELSE grown

\* An ExpandLoop that looks only at the range of the first file of inputs_[0].
ExpandLoopOfFirst(level, inputs0) ==
    ExpandStep(level, inputs0, OverlappingRange(level, GetRange(<<inputs0[1]>>)))

ExpandLoop(level, inputs0) ==
    ExpandStep(level, inputs0, OverlappingRange(level, GetRange(inputs0)))

\* The values inputs_[0] takes at the end of each pass of the do-while loop,
\* in order; the loop leaves when a pass did not grow the set.
RECURSIVE ExpandPasses(_, _)
ExpandPassed(level, old, grown) ==
    IF Len(grown) > Len(old) THEN <<grown>> \o ExpandPasses(level, grown)
    ELSE <<grown>>

ExpandPasses(level, inputs0) ==
    ExpandPassed(level, inputs0, OverlappingRange(level, GetRange(inputs0)))

\* An ExpandCheck that does not look at level+1.
ExpandCheckNoParents(c, inputs0) ==
    IF inputs0 = <<>> \/ FilesInCompaction(inputs0)
    THEN [ok |-> FALSE, c |-> [c EXCEPT !.inputs0 = <<>>, !.inputs1 = <<>>]]
    ELSE [ok |-> TRUE, c |-> [c EXCEPT !.inputs0 = inputs0]]

\* The end of ExpandWhileOverlapping: the expanded inputs_[0] is dropped if one
\* of its files, or a file under its range at level+1, is being compacted.
ExpandCheck(c, inputs0) ==
    IF \/ inputs0 = <<>>
       \/ FilesInCompaction(inputs0)
       \/ /\ c.level # c.output_level
          /\ ParentRangeInCompaction(GetRange(inputs0)[1], GetRange(inputs0)[2],
                                     c.level)
    THEN [ok |-> FALSE, c |-> [c EXCEPT !.inputs0 = <<>>, !.inputs1 = <<>>]]
    ELSE [ok |-> TRUE, c |-> [c EXCEPT !.inputs0 = inputs0]]

\* CompactionPicker::ExpandWhileOverlapping(c): the return value and c afterwards.
ExpandWhileOverlapping(c) ==
    IF c.inputs0 = <<>> THEN [ok |-> FALSE, c |-> c]
    ELSE IF c.level = 0 THEN [ok |-> TRUE, c |-> c]
    ELSE ExpandCheck(c, ExpandLoop(c.level, c.inputs0))

\* What SetupOtherInputs reports of its lateral growth (the "Expanding@" log
\* line): the inputs before the growth was tried and whether it was accepted.
NoGrowth(inputs0, inputs1) ==
    [inputs0 |-> inputs0, inputs1 |-> inputs1, tried |-> FALSE, expanded |-> FALSE]

\* A SetupGrow that accepts the growth whatever files expanded1 holds.
SetupGrowAnyParents(c, inputs1, expanded0, expanded1) ==
    LET accept == /\ inputs1 # <<>>
                  /\ Len(expanded0) > Len(c.inputs0)
                  /\ ~FilesInCompaction(expanded0)
                  /\ ~FilesInCompaction(expanded1)
    IN [c |-> [c EXCEPT !.inputs0 = IF accept THEN expanded0 ELSE c.inputs0,
                        !.inputs1 = IF accept THEN expanded1 ELSE inputs1],
        growth |-> [inputs0 |-> c.inputs0, inputs1 |-> inputs1,
                    tried |-> inputs1 # <<>>, expanded |-> accept]]

\* A SetupGrow that accepts the growth whatever the sizes add up to.
SetupGrowAnySize(c, inputs1, expanded0, expanded1) ==
    LET accept == /\ inputs1 # <<>>
                  /\ Len(expanded0) > Len(c.inputs0)
                  /\ ~FilesInCompaction(expanded0)
                  /\ ~HasOverlappingUserKey(expanded0, c.level)
                  /\ Len(expanded1) = Len(inputs1)
                  /\ ~FilesInCompaction(expanded1)
    IN [c |-> [c EXCEPT !.inputs0 = IF accept THEN expanded0 ELSE c.inputs0,
                        !.inputs1 = IF accept THEN expanded1 ELSE inputs1],
        growth |-> [inputs0 |-> c.inputs0, inputs1 |-> inputs1,
                    tried |-> inputs1 # <<>>, expanded |-> accept]]

\* The end of SetupOtherInputs: the growth to expanded0/expanded1 is accepted
\* or not, and the grandparents are the level+2 files under the final range.
SetupGrow(c, inputs1, expanded0, expanded1) ==
    LET accept == /\ inputs1 # <<>>
                  /\ Len(expanded0) > Len(c.inputs0)
                  /\ TotalCompensatedFileSize(inputs1)
                       + TotalCompensatedFileSize(expanded0)
                       < ExpandedCompactionByteSizeLimit(c.level)
                  /\ ~FilesInCompaction(expanded0)
                  /\ ~HasOverlappingUserKey(expanded0, c.level)
                  /\ Len(expanded1) = Len(inputs1)
                  /\ ~FilesInCompaction(expanded1)
        final0 == IF accept THEN expanded0 ELSE c.inputs0
        final1 == IF accept THEN expanded1 ELSE inputs1
    IN [c |-> [c EXCEPT !.inputs0 = final0,
                        !.inputs1 = final1,
                        !.grandparents_ =
                            IF c.level + 2 < NumberLevels
                            THEN OverlappingRange(c.level + 2, GetRange2(final0, final1))
                            ELSE <<>>],
        growth |-> [inputs0 |-> c.inputs0, inputs1 |-> inputs1,
                    tried |-> inputs1 # <<>>, expanded |-> accept]]

\* The middle of SetupOtherInputs: expanded1 is the level+1 files under expanded0.
SetupExpanded(c, inputs1, expanded0) ==
    SetupGrow(c, inputs1, expanded0, OverlappingRange(c.level + 1, GetRange(expanded0)))

\* The start of the lateral growth: expanded0 is the level files under the
\* range of inputs_[0] and inputs_[1] together.
SetupParents(c, inputs1) ==
    SetupExpanded(c, inputs1, OverlappingRange(c.level, GetRange2(c.inputs0, inputs1)))

\* CompactionPicker::SetupOtherInputs(mutable_cf_options, c): c afterwards and
\* the growth report.
SetupOtherInputs(c) ==
    IF c.inputs0 = <<>> \/ c.level = c.output_level
    THEN [c |-> c, growth |-> NoGrowth(c.inputs0, c.inputs1)]
    ELSE SetupParents(c, OverlappingRange(c.level + 1, GetRange(c.inputs0)))

-----------------------------------------------------------------------------
(* The leveled picker *)

\* The scan of PickCompactionBySize over files_by_size_[level] from position i:
\* the index in files_[level] of the seed (or -1) and the next cursor.  The
\* loop variable is an unsigned int that starts from the int cursor and is
\* compared with files_by_size_[level].size(): a negative cursor converts to a
\* value above every size.
RECURSIVE BySizeLoop(_, _, _)
\* A scan that seeds the first file that is not being compacted, whatever
\* its parents.
BySizeLoopAnyParents(level, i, nextIndex) ==
    LET file_size == version.files_by_size_[level]
    IN IF ~UnsignedBelow(i, Len(file_size)) THEN [seed |-> -1, nextIndex |-> nextIndex]
       ELSE IF being_compacted[FilesAt(level)[file_size[i + 1] + 1]]
            THEN BySizeLoop(level, i + 1, nextIndex)
            ELSE [seed |-> file_size[i + 1],
                  nextIndex |-> IF nextIndex = -1 THEN i ELSE nextIndex]

BySizeLoop(level, i, nextIndex) ==
    LET file_size == version.files_by_size_[level]
    IN IF ~UnsignedBelow(i, Len(file_size)) THEN [seed |-> -1, nextIndex |-> nextIndex]
       ELSE LET index == file_size[i + 1]
                f == FilesAt(level)[index + 1]
                next == IF nextIndex = -1 THEN i ELSE nextIndex
            IN IF being_compacted[f] THEN BySizeLoop(level, i + 1, nextIndex)
               ELSE IF ParentRangeInCompaction(Meta(f).smallest, Meta(f).largest, level)
                    THEN BySizeLoop(level, i + 1, next)
                    ELSE [seed |-> index, nextIndex |-> next]

\* The end of PickCompactionBySize: the compaction seeded with the file the
\* scan r found (or nullptr) and the value left in the level's cursor.
BySizeResult(level, r) ==
    [c |-> IF r.seed = -1 THEN nullptr
           ELSE [NewCompaction(level, level + 1) EXCEPT
                    !.inputs0 = <<FilesAt(level)[r.seed + 1]>>,
                    !.base_index_ = r.seed],
     nextIndex |-> r.nextIndex]

\* A PickCompactionBySize without the level-0 guard.
PickCompactionBySizeUnguarded(level) ==
    BySizeResult(level, BySizeLoop(level, next_file_to_compact_by_size_[level], -1))

\* LevelCompactionPicker::PickCompactionBySize(level): the compaction seeded
\* with one file (or nullptr) and the value left in the level's cursor.
PickCompactionBySize(level) ==
    IF level = 0 /\ BagCardinality(compactions_in_progress_[level]) = 1
    THEN [c |-> nullptr, nextIndex |-> next_file_to_compact_by_size_[level]]
    ELSE BySizeResult(level, BySizeLoop(level, next_file_to_compact_by_size_[level], -1))

\* The loop of LevelCompactionPicker::PickCompaction over the score-sorted
\* levels from position i: the first candidate that survives expansion.
\* LevelTry is one iteration with p the result of PickCompactionBySize, and
\* LevelTried its end with e the result of ExpandWhileOverlapping and moved
\* the cursors after p.
RECURSIVE LevelPickLoop(_, _, _)
\* A LevelTried that gives up at the first level whose candidate fails.
LevelTriedGivesUp(scores, i, moved, p, e) ==
    IF p.c = nullptr \/ ~e.ok
    THEN [c |-> nullptr, cursors |-> moved]
    ELSE [c |-> e.c, cursors |-> moved]

LevelTried(scores, i, moved, p, e) ==
    IF p.c = nullptr \/ ~e.ok
    THEN LevelPickLoop(scores, i + 1, moved)
    ELSE [c |-> e.c, cursors |-> moved]

LevelTry(scores, i, cursors, p) ==
    LevelTried(scores, i, [cursors EXCEPT ![scores[i + 1].level] = p.nextIndex],
               p, ExpandWhileOverlapping(p.c))

LevelPickLoop(scores, i, cursors) ==
    IF i >= NumberLevels - 1 THEN [c |-> nullptr, cursors |-> cursors]
    ELSE IF ~ScoreAtLeastOne(scores[i + 1]) THEN LevelPickLoop(scores, i + 1, cursors)
    ELSE LevelTry(scores, i, cursors, PickCompactionBySize(scores[i + 1].level))

\* The level-0 step of PickCompaction: inputs_[0] becomes every level-0 file
\* overlapping the seed (inputs0); nullptr if a level-1 file under the new
\* range is busy.
Level0Check(c, inputs0) ==
    IF ParentRangeInCompaction(GetRange(inputs0)[1], GetRange(inputs0)[2], 0)
    THEN nullptr
    ELSE [c EXCEPT !.inputs0 = inputs0]

\* A PickLevel0 that keeps the seed as it is.
PickLevel0SeedOnly(c) == Level0Check(c, c.inputs0)

PickLevel0(c) == Level0Check(c, OverlappingRange(0, GetRange(c.inputs0)))

\* The end of LevelCompactionPicker::PickCompaction, with c0 the compaction
\* after the level-0 step: marked is the compaction MarkFilesBeingCompacted(true)
\* is called on, after SetupOtherInputs, and nullptr on the paths that leave
\* before that call.
LevelSetup(cursors, c0) ==
    IF c0 = nullptr
    THEN [c |-> nullptr, marked |-> nullptr, cursors |-> cursors,
          growth |-> NoGrowth(<<>>, <<>>)]
    ELSE LET s == SetupOtherInputs(c0)
         IN [cursors |-> cursors, marked |-> s.c] @@ s

\* The middle of PickCompaction, with picked the result of the level loop.
LevelPicked(picked) ==
    LevelSetup(picked.cursors,
               IF picked.c # nullptr /\ picked.c.level = 0
               THEN PickLevel0(picked.c) ELSE picked.c)

\* The body of LevelCompactionPicker::PickCompaction: the compaction built
\* (or nullptr), the compaction whose files it marks, the cursors and the
\* growth report.
LevelPick ==
    LevelPicked(LevelPickLoop(ComputeCompactionScore(SizeBeingCompacted), 0,
                              next_file_to_compact_by_size_))

-----------------------------------------------------------------------------
(* The FIFO picker *)

\* The deletion loop of FIFOCompactionPicker::PickCompaction: files are taken
\* from the back (oldest) of files_[0]; i counts the files taken so far.
RECURSIVE FIFOLoop(_, _, _)
\* A FIFOLoop that takes the oldest file only.
FIFOLoopOldestOnly(i, total_size, inputs) == <<FilesAt(0)[Len(FilesAt(0))]>>

FIFOLoop(i, total_size, inputs) ==
    LET files == FilesAt(0)
    IN IF i >= Len(files) THEN inputs
       ELSE LET f == files[Len(files) - i]
                left == total_size - Meta(f).compensated_file_size
            IN IF left <= version.options.max_table_files_size
               THEN Append(inputs, f)
               ELSE FIFOLoop(i + 1, left, Append(inputs, f))

\* The body of FIFOCompactionPicker::PickCompaction up to the marking.
FIFOPick ==
    IF \/ TotalCompensatedFileSize(FilesAt(0)) <= version.options.max_table_files_size
       \/ Len(FilesAt(0)) = 0
    THEN nullptr
    ELSE IF BagCardinality(compactions_in_progress_[0]) > 0
    THEN nullptr
    ELSE [NewCompaction(0, 0) EXCEPT
             !.inputs0 = FIFOLoop(0, TotalCompensatedFileSize(FilesAt(0)), <<>>),
             !.is_deletion_compaction_ = TRUE]

-----------------------------------------------------------------------------
(* The universal picker *)

\* A comparison that never finds the scaled size below the other.
ScaledNeverBelow(size, ratio, other) == FALSE

\* size * (100.0 + ratio) / 100.0 < other, as PickCompactionUniversalReadAmp
\* computes it in doubles, ratio being an unsigned int:
\* size * (100 + ratio) < other * 100.  A ratio written as the negative n is
\* 2^32 + n, and 100 + 2^32 + n = 42949672 * 100 + (196 + n); with
\* ratio = UINT_MAX the factor is 4294967395 / 100 = 42949673.95.
ScaledBelow(size, ratio, other) ==
    IF ratio < 0
    THEN TimesBelow(size, 42949672 + (196 + ratio) \div 100, (196 + ratio) % 100, other)
    ELSE TimesBelow(size, 1 + ratio \div 100, ratio % 100, other)

\* The Compaction the universal sub-policies build: level 0 to level 0.
UniversalCompaction(inputs) ==
    [bottommost_level_ |-> FALSE, is_full_compaction_ |-> FALSE]
        @@ [NewCompaction(0, 0) EXCEPT !.inputs0 = inputs]

\* The 0-based positions from..to of files_[0] that are free.
FreePositions(from, to) ==
    {i \in from..to : ~being_compacted[FilesAt(0)[i + 1]]}

\* A SizeAmpFrom that does not look at the being_compacted flags.
SizeAmpFromUnchecked(start_index) ==
    IF /\ Meta(FilesAt(0)[Len(FilesAt(0))]).file_size # 0
       /\ UnsignedBelow(
              (TotalCompensatedFileSize(
                   SubSeq(FilesAt(0), start_index + 1, Len(FilesAt(0)) - 1)) * 100)
                 \div Meta(FilesAt(0)[Len(FilesAt(0))]).file_size,
              version.universal.max_size_amplification_percent)
    THEN nullptr
    ELSE UniversalCompaction(SubSeq(FilesAt(0), start_index + 1, Len(FilesAt(0))))

\* PickCompactionUniversalSizeAmp from the first candidate on: the files
\* start_index .. size-2 must be free; their compensated sizes are summed and
\* compared with the oldest file's size.  The test is
\* candidate_size * 100 < ratio * earliest_file_size in uint64_t, with ratio
\* the unsigned int max_size_amplification_percent widened: for a file size
\* that is not 0 it says that the quotient of candidate_size * 100 by
\* earliest_file_size is below ratio, and for a file size of 0 it is false.
SizeAmpFrom(start_index) ==
    IF FreePositions(start_index, Len(FilesAt(0)) - 2)
          # start_index..(Len(FilesAt(0)) - 2)
    THEN nullptr
    ELSE IF /\ Meta(FilesAt(0)[Len(FilesAt(0))]).file_size # 0
            /\ UnsignedBelow(
                   (TotalCompensatedFileSize(
                        SubSeq(FilesAt(0), start_index + 1, Len(FilesAt(0)) - 1)) * 100)
                      \div Meta(FilesAt(0)[Len(FilesAt(0))]).file_size,
                   version.universal.max_size_amplification_percent)
    THEN nullptr
    ELSE UniversalCompaction(SubSeq(FilesAt(0), start_index + 1, Len(FilesAt(0))))

\* UniversalCompactionPicker::PickCompactionUniversalSizeAmp: the first
\* candidate is the first free file before the oldest.  The scan runs while
\* loop < files.size() - 1 in unsigned arithmetic: on an empty files_[0] the
\* bound wraps and files[0] is read outside the vector.
PickCompactionUniversalSizeAmp ==
    IF Len(FilesAt(0)) = 0
    THEN UndefinedBehaviour
    ELSE IF FreePositions(0, Len(FilesAt(0)) - 2) = {}
    THEN nullptr
    ELSE SizeAmpFrom(Min(FreePositions(0, Len(FilesAt(0)) - 2)))

\* The inner loop of PickCompactionUniversalReadAmp: files from position i on
\* join the run while the run is below max_files_to_compact, the file is free
\* and the size rule of the stop style admits it.  The result is
\* candidate_count.
RECURSIVE ReadAmpCount(_, _, _, _, _)
\* A ReadAmpCount that runs through files that are being compacted.
ReadAmpCountThroughBusy(i, candidate_count, candidate_size, ratio, max_files_to_compact) ==
    IF ~(UnsignedBelow(candidate_count, max_files_to_compact) /\ i < Len(FilesAt(0)))
    THEN candidate_count
    ELSE ReadAmpCount(i + 1, candidate_count + 1,
                      candidate_size + Meta(FilesAt(0)[i + 1]).compensated_file_size,
                      ratio, max_files_to_compact)

ReadAmpCount(i, candidate_count, candidate_size, ratio, max_files_to_compact) ==
    IF ~(UnsignedBelow(candidate_count, max_files_to_compact) /\ i < Len(FilesAt(0)))
    THEN candidate_count
    ELSE IF being_compacted[FilesAt(0)[i + 1]]
    THEN candidate_count
    ELSE IF ScaledBelow(candidate_size, ratio, Meta(FilesAt(0)[i + 1]).file_size)
    THEN candidate_count
    ELSE IF version.universal.stop_style = kCompactionStopStyleSimilarSize
    THEN IF ScaledBelow(Meta(FilesAt(0)[i + 1]).file_size, ratio, candidate_size)
         THEN candidate_count
         ELSE ReadAmpCount(i + 1, candidate_count + 1,
                           Meta(FilesAt(0)[i + 1]).compensated_file_size,
                           ratio, max_files_to_compact)
    ELSE ReadAmpCount(i + 1, candidate_count + 1,
                      candidate_size + Meta(FilesAt(0)[i + 1]).compensated_file_size,
                      ratio, max_files_to_compact)

\* The run PickCompactionUniversalReadAmp returns: candidate_count files of
\* files_[0] from position start_index, in the order of files_[0].
UniversalRunReversed(start_index, candidate_count) ==
    UniversalCompaction(
        [j \in 1..candidate_count |->
            FilesAt(0)[start_index + candidate_count + 1 - j]])

UniversalRun(start_index, candidate_count) ==
    UniversalCompaction(
        SubSeq(FilesAt(0), start_index + 1, start_index + candidate_count))

\* The outer loop of PickCompactionUniversalReadAmp from position loop.
RECURSIVE ReadAmpLoop(_, _, _, _)
\* The end of one iteration: the run found at position loop has
\* candidate_count files.
ReadAmpFound(loop, candidate_count, ratio, max_files_to_compact, min_merge_width) ==
    IF ~UnsignedBelow(candidate_count, min_merge_width)
    THEN IF candidate_count <= 1 THEN nullptr
         ELSE UniversalRun(loop, candidate_count)
    ELSE ReadAmpLoop(loop + 1, ratio, max_files_to_compact, min_merge_width)

\* The start of one iteration at the free position loop.
ReadAmpAt(loop, ratio, max_files_to_compact, min_merge_width) ==
    ReadAmpFound(loop,
        ReadAmpCount(loop + 1, 1, Meta(FilesAt(0)[loop + 1]).compensated_file_size,
                     ratio, max_files_to_compact),
        ratio, max_files_to_compact, min_merge_width)

ReadAmpLoop(loop, ratio, max_files_to_compact, min_merge_width) ==
    IF loop >= Len(FilesAt(0)) THEN nullptr
    ELSE IF FreePositions(loop, Len(FilesAt(0)) - 1) = {} THEN nullptr
    ELSE ReadAmpAt(Min(FreePositions(loop, Len(FilesAt(0)) - 1)),
                   ratio, max_files_to_compact, min_merge_width)

\* UniversalCompactionPicker::PickCompactionUniversalReadAmp(ratio,
\* max_number_of_files_to_compact)
PickCompactionUniversalReadAmp(ratio, max_number_of_files_to_compact) ==
    ReadAmpLoop(0, ratio,
        UnsignedMin(version.universal.max_merge_width, max_number_of_files_to_compact),
        UnsignedMax(version.universal.min_merge_width, 2))

\* The three sub-policies of UniversalCompactionPicker::PickCompaction in the
\* order they are tried: sa, ra and fn are their results.
UniversalFirstOfLastFirst(sa, ra, fn) ==
    IF fn # nullptr THEN fn ELSE IF ra # nullptr THEN ra ELSE sa

UniversalFirstOf(sa, ra, fn) ==
    IF sa # nullptr THEN sa ELSE IF ra # nullptr THEN ra ELSE fn

\* The assertions of PickCompaction on the chosen files: more than one, each
\* with smallest_seqno <= largest_seqno, each older than the one before.
UniversalAssertions(c) ==
    /\ Len(c.inputs0) > 1
    /\ \A i \in 1..Len(c.inputs0) :
          /\ Meta(c.inputs0[i]).smallest_seqno <= Meta(c.inputs0[i]).largest_seqno
          /\ i > 1 => Meta(c.inputs0[i - 1]).smallest_seqno
                          > Meta(c.inputs0[i]).largest_seqno

\* A finish that sets bottommost_level_ and is_full_compaction_ on every
\* compaction.
UniversalFinishAlwaysFull(c) ==
    IF c = nullptr THEN nullptr
    ELSE [c EXCEPT !.bottommost_level_ = TRUE, !.is_full_compaction_ = TRUE]

\* The end of PickCompaction: bottommost_level_ and is_full_compaction_.
UniversalFinish(c) ==
    IF c = nullptr THEN nullptr
    ELSE [c EXCEPT
            !.bottommost_level_ =
                c.inputs0[Len(c.inputs0)] = FilesAt(0)[Len(FilesAt(0))],
            !.is_full_compaction_ = Len(c.inputs0) = Len(FilesAt(0))]

\* The body of UniversalCompactionPicker::PickCompaction up to the marking.
UniversalPick ==
    IF UnsignedBelow(Len(FilesAt(0)), version.options.level0_file_num_compaction_trigger)
    THEN nullptr
    ELSE IF PickCompactionUniversalSizeAmp = UndefinedBehaviour
    THEN UndefinedBehaviour
    ELSE UniversalFinish(
            UniversalFirstOf(
                PickCompactionUniversalSizeAmp,
                PickCompactionUniversalReadAmp(version.universal.size_ratio, UINT_MAX),
                PickCompactionUniversalReadAmp(UINT_MAX,
                    Len(FilesAt(0)) - version.options.level0_file_num_compaction_trigger)))

-----------------------------------------------------------------------------
(* Path selection of the universal picker *)

\* lhs > future_size, where future_size = file_size * (100 - size_ratio) / 100
\* in uint64_t with 100 - size_ratio computed in unsigned int: the test is
\* file_size * k < lhs * 100 with k = (100 - size_ratio) mod 2^32.  For a
\* size_ratio above 100 the difference wraps to
\* 2^32 + 100 - size_ratio = 42949672 * 100 + (196 - size_ratio).
AboveFutureSize(lhs, file_size, size_ratio) ==
    IF size_ratio <= 100
    THEN TimesBelow(file_size, (100 - size_ratio) \div 100, (100 - size_ratio) % 100, lhs)
    ELSE TimesBelow(file_size, 42949672 + (196 - size_ratio) \div 100,
                    (196 - size_ratio) % 100, lhs)

\* The loop of GetPathId from path p (0-based) with accumulated_size.  The
\* guard p < db_paths.size() - 1 is unsigned: with no path configured the
\* bound wraps and db_paths[0] is read outside the vector.
RECURSIVE PathLoop(_, _, _, _, _)
PathLoop(db_paths, file_size, size_ratio, p, accumulated_size) ==
    IF ~UnsignedBelow(p, Len(db_paths) - 1) THEN p
    ELSE IF p >= Len(db_paths) THEN UndefinedBehaviour
    ELSE IF /\ db_paths[p + 1] > file_size
            /\ AboveFutureSize(accumulated_size + (db_paths[p + 1] - file_size),
                               file_size, size_ratio)
    THEN p
    ELSE PathLoop(db_paths, file_size, size_ratio, p + 1,
                  accumulated_size + db_paths[p + 1])

\* UniversalCompactionPicker::GetPathId(ioptions, file_size): db_paths is the
\* list of the target sizes of ioptions.db_paths, size_ratio is
\* ioptions.compaction_options_universal.size_ratio.
GetPathId(db_paths, file_size, size_ratio) ==
    PathLoop(db_paths, file_size, size_ratio, 0, 0)

-----------------------------------------------------------------------------

(* Manual compaction *)

\* *compaction_end as the caller sees it: NotSet while the call has not
\* written it, Null once the pointer is set to nullptr, else the key written.
NotSet == <<-1, -1>>

\* A size cap that leaves out the file that brings the total to the limit
\* (but never the first file).
RECURSIVE CapLoopExclusive(_, _, _, _)
CapLoopExclusive(inputs, i, total, limit) ==
    IF i + 1 >= Len(inputs)
    THEN [inputs |-> inputs, compaction_end |-> NotSet, covering_the_whole_range |-> TRUE]
    ELSE LET sum == total + Meta(inputs[i + 1]).compensated_file_size
         IN IF ~UnsignedBelow(sum, limit)
            THEN [inputs |-> SubSeq(inputs, 1, IF i = 0 THEN 1 ELSE i),
                  compaction_end |-> Meta(inputs[IF i = 0 THEN 2 ELSE i + 1]).smallest,
                  covering_the_whole_range |-> FALSE]
            ELSE CapLoopExclusive(inputs, i + 1, sum, limit)

\* The size cap of CompactRange (input_level > 0): stop after the file that
\* brings the total to the limit; i is the 0-based loop index.  total and
\* limit are uint64_t; limit is the product of MaxFileSizeForLevel and the
\* int source_compaction_factor, so that a negative factor makes a limit
\* near 2^64, written here as the negative product.
RECURSIVE CapLoop(_, _, _, _)
CapLoop(inputs, i, total, limit) ==
    IF i + 1 >= Len(inputs)
    THEN [inputs |-> inputs, compaction_end |-> NotSet, covering_the_whole_range |-> TRUE]
    ELSE LET sum == total + Meta(inputs[i + 1]).compensated_file_size
         IN IF ~UnsignedBelow(sum, limit)
            THEN [inputs |-> SubSeq(inputs, 1, i + 1),
                  compaction_end |-> Meta(inputs[i + 2]).smallest,
                  covering_the_whole_range |-> FALSE]
            ELSE CapLoop(inputs, i + 1, sum, limit)

\* An end of CompactRange that always reports the whole range as covered.
ManualSetupAlwaysCovering(capped, e, s) ==
    IF ~e.ok
    THEN [c |-> nullptr, marked |-> nullptr,
          compaction_end |-> capped.compaction_end,
          growth |-> NoGrowth(<<>>, <<>>)]
    ELSE [c |-> [s.c EXCEPT !.is_manual_compaction_ = TRUE],
          marked |-> [s.c EXCEPT !.is_manual_compaction_ = TRUE],
          compaction_end |-> Null,
          growth |-> s.growth]

\* A CompactRange that marks the files of its candidate, the inputs the size
\* cap has kept, before it calls ExpandWhileOverlapping.
ManualSetupMarkingFirst(capped, e, s) ==
    IF ~e.ok
    THEN [c |-> nullptr, marked |-> [e.c EXCEPT !.inputs0 = capped.inputs],
          compaction_end |-> capped.compaction_end,
          growth |-> NoGrowth(<<>>, <<>>)]
    ELSE [c |-> [s.c EXCEPT !.is_manual_compaction_ = TRUE],
          marked |-> [s.c EXCEPT !.is_manual_compaction_ = TRUE],
          compaction_end |-> IF capped.covering_the_whole_range
                             THEN Null ELSE capped.compaction_end,
          growth |-> s.growth]

\* The end of CompactRange, with capped the inputs after the size cap, e the
\* result of ExpandWhileOverlapping and s the result of SetupOtherInputs.
\* On a failed expansion the candidate is deleted and nullptr returned; else
\* the compaction is set up, its files are marked (marked is the compaction
\* MarkFilesBeingCompacted(true) is called on) and it is returned.
ManualSetup(capped, e, s) ==
    IF ~e.ok
    THEN [c |-> nullptr, marked |-> nullptr,
          compaction_end |-> capped.compaction_end,
          growth |-> NoGrowth(<<>>, <<>>)]
    ELSE [c |-> [s.c EXCEPT !.is_manual_compaction_ = TRUE],
          marked |-> [s.c EXCEPT !.is_manual_compaction_ = TRUE],
          compaction_end |-> IF capped.covering_the_whole_range
                             THEN Null ELSE capped.compaction_end,
          growth |-> s.growth]

ManualExpanded(capped, e) == ManualSetup(capped, e, SetupOtherInputs(e.c))

ManualCapped(input_level, output_level, capped) ==
    ManualExpanded(capped,
        ExpandWhileOverlapping(
            [NewCompaction(input_level, output_level) EXCEPT !.inputs0 = capped.inputs]))

\* The middle of CompactRange, with inputs the files of input_level under
\* the range asked for.
ManualInputs(input_level, output_level, inputs) ==
    IF inputs = <<>>
    THEN [c |-> nullptr, marked |-> nullptr, compaction_end |-> NotSet,
          growth |-> NoGrowth(<<>>, <<>>)]
    ELSE ManualCapped(input_level, output_level,
            IF input_level > 0
            THEN CapLoop(inputs, 0, 0,
                         MaxFileSizeForLevel(input_level)
                           * version.options.source_compaction_factor)
            ELSE [inputs |-> inputs, compaction_end |-> NotSet,
                  covering_the_whole_range |-> TRUE])

\* The body of CompactionPicker::CompactRange: the compaction returned (or
\* nullptr), the compaction whose files it marks, *compaction_end and the
\* growth report.
ManualPick(input_level, output_level, begin, end) ==
    ManualInputs(input_level, output_level,
        IF version.style = kCompactionStyleUniversal
        THEN GetOverlappingInputs(input_level, Null, Null)
        ELSE GetOverlappingInputs(input_level, begin, end))

-----------------------------------------------------------------------------
(* Input sanitization *)

\* cf_meta is read off the Version and the being_compacted flags: its level l
\* holds the files of FilesAt(l) in that order, smallestkey and largestkey
\* are the user keys of the file's bounds.
kDeletionCompaction == -1

\* MaxOutputLevel() is the last level, NumberLevels() - 1, unless the picker
\* overrides it: the universal and the FIFO picker write to level 0 only.
MaxOutputLevel ==
    IF version.style \in {kCompactionStyleUniversal, kCompactionStyleFIFO}
    THEN 0
    ELSE NumberLevels - 1

FileSmallestKey(f) == Meta(f).smallest[1]
FileLargestKey(f) == Meta(f).largest[1]

\* HaveOverlappingKeyRanges(comparator, a, b) on two key ranges.
HaveOverlappingKeyRanges(a, b) ==
    IF a.smallestkey >= b.smallestkey /\ a.smallestkey <= b.largestkey THEN TRUE
    ELSE IF a.smallestkey < b.smallestkey /\ a.largestkey >= b.smallestkey THEN TRUE
    ELSE IF a.largestkey <= b.largestkey /\ a.largestkey >= b.smallestkey THEN TRUE
    ELSE IF a.largestkey > b.largestkey /\ a.smallestkey <= b.largestkey THEN TRUE
    ELSE FALSE

\* The locals of SanitizeCompactionInputFilesForAllLevels and its status.
SanitizeLocals(input_files) ==
    [input_files |-> input_files, smallestkey |-> 0, largestkey |-> 0,
     is_first |-> FALSE, status |-> "OK"]

\* The insertion loops: the files are inserted in order up to the first one
\* that is being compacted, on which the call returns Aborted.
InsertFiles(files, st) ==
    LET busy == {i \in 1..Len(files) : being_compacted[files[i]]}
    IN IF busy = {}
       THEN [st EXCEPT !.input_files = @ \cup SeqRange(files)]
       ELSE [st EXCEPT !.input_files = @ \cup SeqRange(SubSeq(files, 1, Min(busy) - 1)),
                       !.status = "Aborted"]

\* A window that grows by one file at most on its left.
ExtendFirstOnce(files, first) ==
    IF first > 1 /\ ~(FileLargestKey(files[first - 1]) < FileSmallestKey(files[first]))
    THEN first - 1
    ELSE first

\* The two while loops that extend the window [first, last] (1-based) of a
\* level above 0 over neighbours whose keys touch.
RECURSIVE ExtendFirst(_, _)
ExtendFirst(files, first) ==
    IF first > 1 /\ ~(FileLargestKey(files[first - 1]) < FileSmallestKey(files[first]))
    THEN ExtendFirst(files, first - 1)
    ELSE first

\* A window that never grows on its right.
ExtendLastNever(files, last_included) == last_included

RECURSIVE ExtendLast(_, _)
ExtendLast(files, last_included) ==
    IF last_included < Len(files)
       /\ ~(FileSmallestKey(files[last_included + 1]) > FileLargestKey(files[last_included]))
    THEN ExtendLast(files, last_included + 1)
    ELSE last_included

\* smallestkey and largestkey take the keys of the first input file found.
FirstKeys(f, st) ==
    IF st.is_first THEN st
    ELSE [st EXCEPT !.smallestkey = FileSmallestKey(f),
                    !.largestkey = FileLargestKey(f),
                    !.is_first = TRUE]

\* A key range that stays the one of the first input file found.
UpdateKeysKeep(l, files, first, last_included, st) == st

\* "update smallest and largest key"
UpdateKeys(l, files, first, last_included, st) ==
    IF l = 0
    THEN [st EXCEPT
            !.smallestkey = Min({@} \cup {FileSmallestKey(files[i]) : i \in first..last_included}),
            !.largestkey = Max({@} \cup {FileLargestKey(files[i]) : i \in first..last_included})]
    ELSE [st EXCEPT
            !.smallestkey = Min({@, FileSmallestKey(files[first])}),
            !.largestkey = Max({@, FileLargestKey(files[last_included])})]

\* "For all lower levels, include all overlapping files": the files of
\* levels m..output_level that overlap the key range, in the order visited.
RECURSIVE LowerOverlapping(_, _, _)
LowerOverlapping(m, output_level, st) ==
    IF m > output_level THEN <<>>
    ELSE SelectSeq(FilesAt(m),
                   LAMBDA f : HaveOverlappingKeyRanges(
                                 [smallestkey |-> st.smallestkey,
                                  largestkey |-> st.largestkey],
                                 [smallestkey |-> FileSmallestKey(f),
                                  largestkey |-> FileLargestKey(f)]))
         \o LowerOverlapping(m + 1, output_level, st)

SanitizeLower(l, output_level, st) ==
    InsertFiles(LowerOverlapping(l + 1, output_level, st), st)

\* One level once its window is known: st holds the window's files or Aborted.
SanitizeWindow(l, output_level, files, first, last_included, st) ==
    IF st.status # "OK" THEN st
    ELSE SanitizeLower(l, output_level, UpdateKeys(l, files, first, last_included, st))

SanitizeIncluded(l, output_level, files, first, last_included, st) ==
    SanitizeWindow(l, output_level, files, first, last_included,
                   InsertFiles(SubSeq(files, first, last_included), st))

\* One round of the loop over the levels.
SanitizeLevel(l, output_level, st) ==
    LET files == FilesAt(l)
        included == {i \in 1..Len(files) : files[i] \in st.input_files}
    IN IF included = {} THEN st
       ELSE SanitizeIncluded(l, output_level, files,
                IF l # 0 THEN ExtendFirst(files, Min(included)) ELSE Min(included),
                IF l # 0 THEN ExtendLast(files, Max(included)) ELSE Max(included),
                FirstKeys(files[Min(included)], st))

RECURSIVE SanitizeLevels(_, _, _)
SanitizeLevels(l, output_level, st) ==
    IF l > output_level \/ st.status # "OK" THEN st
    ELSE SanitizeLevels(l + 1, output_level, SanitizeLevel(l, output_level, st))

\* CompactionPicker::SanitizeCompactionInputFilesForAllLevels
SanitizeCompactionInputFilesForAllLevels(input_files, output_level) ==
    SanitizeLevels(0, output_level, SanitizeLocals(input_files))

\* A last loop that only looks the file numbers up.
CheckInputFilesExist(input_files) ==
    IF input_files \subseteq FileNumbers THEN "OK" ELSE "InvalidArgument"

\* The last loop of SanitizeCompactionInputFiles, over the set in ascending
\* order of file number: the first file that is being compacted or unknown
\* decides.
CheckInputFiles(input_files) ==
    LET bad == {f \in input_files : f \notin FileNumbers \/ being_compacted[f]}
    IN IF bad = {} THEN "OK"
       ELSE IF Min(bad) \in FileNumbers THEN "Aborted" ELSE "InvalidArgument"

SanitizeChecked(st) ==
    IF st.status # "OK" THEN st ELSE [st EXCEPT !.status = CheckInputFiles(st.input_files)]

\* CompactionPicker::SanitizeCompactionInputFiles: the status and the set
\* input_files points to on return.
SanitizeCompactionInputFiles(input_files, output_level) ==
    IF \/ output_level >= NumberLevels
       \/ output_level > MaxOutputLevel
       \/ output_level < 0 /\ output_level # kDeletionCompaction
       \/ input_files = {}
    THEN [SanitizeLocals(input_files) EXCEPT !.status = "InvalidArgument"]
    ELSE SanitizeChecked(SanitizeCompactionInputFilesForAllLevels(input_files, output_level))

-----------------------------------------------------------------------------
(* Inputs from file numbers *)

\* CompactionPicker::GetCompactionInputsFromFileNumbers(input_files,
\* input_set, version, compact_options), called with an empty *input_files:
\* the status, *input_files (a list of CompactionInputFiles, each with its
\* level and its files) and what is left in *input_set on return.
MatchedInputFiles(input_set, level) ==
    SelectSeq(FilesAt(level), LAMBDA f : f \in input_set)

NonEmptyLevels(input_set) ==
    {level \in Levels : MatchedInputFiles(input_set, level) # <<>>}

\* The last loop with the levels pushed from the last non-empty one down.
InputFilesDescending(input_set, first_non_empty_level, last_non_empty_level) ==
    [i \in 1..(last_non_empty_level - first_non_empty_level + 1) |->
        [level |-> last_non_empty_level - i + 1,
         files |-> MatchedInputFiles(input_set, last_non_empty_level - i + 1)]]

\* The last loop: every level from the first to the last non-empty one.
InputFilesBetween(input_set, first_non_empty_level, last_non_empty_level) ==
    [i \in 1..(last_non_empty_level - first_non_empty_level + 1) |->
        [level |-> first_non_empty_level + i - 1,
         files |-> MatchedInputFiles(input_set, first_non_empty_level + i - 1)]]

GetCompactionInputsFromFileNumbers(input_set) ==
    IF input_set = {}
    THEN [status |-> "InvalidArgument", input_files |-> <<>>, input_set |-> {}]
    ELSE IF input_set \ FileNumbers # {}
    THEN [status |-> "InvalidArgument", input_files |-> <<>>,
          input_set |-> input_set \ FileNumbers]
    ELSE [status |-> "OK",
          input_files |-> InputFilesBetween(input_set,
                              Min(NonEmptyLevels(input_set)),
                              Max(NonEmptyLevels(input_set))),
          input_set |-> {}]

\* The file numbers of a list of CompactionInputFiles.
RECURSIVE ToFileNumbers(_)
ToFileNumbers(input_files) ==
    IF input_files = <<>> THEN {}
    ELSE SeqRange(input_files[1].files) \cup ToFileNumbers(Tail(input_files))

-----------------------------------------------------------------------------
(* The pluggable picker *)

\* The files of the lists after the first one.
RECURSIVE OtherInputFiles(_)
OtherInputFiles(input_files) ==
    IF input_files = <<>> THEN <<>>
    ELSE input_files[1].files \o OtherInputFiles(Tail(input_files))

\* CompactionPicker::FormCompaction up to the marking of the files: the
\* Compaction of the lists input_files, from the level of the first list.
\* inputs_ holds the lists; inputs0 is the first list and inputs1 the files of
\* all the others.
FormCompaction(input_files, output_level) ==
    [inputs_ |-> input_files]
        @@ [NewCompaction(input_files[1].level, output_level) EXCEPT
               !.inputs0 = input_files[1].files,
               !.inputs1 = OtherInputFiles(Tail(input_files)),
               !.is_deletion_compaction_ = (output_level = kDeletionCompaction)]

\* The end of the pluggable PickCompaction and CompactRange, with r the
\* result of GetCompactionInputsFromFileNumbers.
PluggableForm(r, output_level) ==
    IF r.status # "OK" \/ Len(r.input_files) = 0
    THEN nullptr
    ELSE FormCompaction(r.input_files, output_level)

\* The middle, with st the result of SanitizeCompactionInputFiles.
PluggableSanitized(st, output_level) ==
    IF st.status # "OK"
    THEN nullptr
    ELSE PluggableForm(GetCompactionInputsFromFileNumbers(st.input_files), output_level)

\* PluggableCompactionPicker::PickCompaction up to the marking, where the
\* Compactor answers s, input_file_numbers and output_level.
PluggablePick(s, input_file_numbers, output_level) ==
    IF ~version.compactor_ THEN nullptr
    ELSE IF s # "OK" \/ input_file_numbers = {} THEN nullptr
    ELSE PluggableSanitized(
            SanitizeCompactionInputFiles(input_file_numbers, output_level),
            output_level)

\* PluggableCompactionPicker::CompactRange up to the marking, where the
\* Compactor answers s and input_file_numbers.
PluggablePickByRange(s, input_file_numbers, output_level) ==
    IF ~version.compactor_ THEN nullptr
    ELSE IF s # "OK" THEN nullptr
    ELSE PluggableSanitized(
            SanitizeCompactionInputFiles(input_file_numbers, output_level),
            output_level)

-----------------------------------------------------------------------------
(* The state machine *)

\* The compactions that are live, and whether one more may be handed out.
Live == BagToSet(live)
Room == BagCardinality(live) < MaxLive

\* The record kept of the last call.
Call(op, c, growth, compaction_end, status) ==
    [op |-> op, c |-> c, growth |-> growth,
     compaction_end |-> compaction_end, status |-> status]

Init ==
    /\ version \in Versions
    /\ being_compacted = [f \in FileNumbers |-> FALSE]
    /\ next_file_to_compact_by_size_ = [l \in Levels |-> 0]
    /\ compactions_in_progress_ = [l \in Levels |-> EmptyBag]
    /\ live = EmptyBag
    /\ last = Call("Init", nullptr, NoGrowth(<<>>, <<>>), NotSet, "OK")

\* c->MarkFilesBeingCompacted(true) and, in the pickers that keep track of
\* their compactions, compactions_in_progress_[level].insert(c).
HandOut(c, registered) ==
    /\ being_compacted' = MarkFilesBeingCompacted(c, TRUE, being_compacted)
    /\ compactions_in_progress_' =
          IF registered
          THEN [compactions_in_progress_ EXCEPT ![c.level] = @ (+) SetToBag({c})]
          ELSE compactions_in_progress_

\* The effect of a picker call op with result r: the files of the compaction
\* the call has marked are flagged and the compaction is registered, whatever
\* the call returns; a compaction that is returned is live with the caller
\* until it is released.
Return(op, r, registered) ==
    /\ r.c # nullptr => Room
    /\ IF r.marked = nullptr
       THEN UNCHANGED <<being_compacted, compactions_in_progress_>>
       ELSE HandOut(r.marked, registered)
    /\ live' = IF r.c = nullptr THEN live ELSE live (+) SetToBag({r.c})
    /\ last' = Call(op, r.c, r.growth, r.compaction_end, "OK")

\* LevelCompactionPicker::PickCompaction
LevelReturn(r) ==
    /\ next_file_to_compact_by_size_' = r.cursors
    /\ Return("PickCompaction", [compaction_end |-> NotSet] @@ r, TRUE)

LevelPickCompaction ==
    /\ version.style = kCompactionStyleLevel
    /\ LevelReturn(LevelPick)
    /\ UNCHANGED version

\* FIFOCompactionPicker::PickCompaction: the compaction it builds is marked
\* and registered right before it is returned.
FIFOPickCompaction ==
    /\ version.style = kCompactionStyleFIFO
    /\ Return("PickCompaction",
              [c |-> FIFOPick, marked |-> FIFOPick,
               growth |-> NoGrowth(<<>>, <<>>), compaction_end |-> NotSet],
              TRUE)
    /\ UNCHANGED <<version, next_file_to_compact_by_size_>>

\* CompactionPicker::CompactRange(version, input_level, output_level, begin, end,
\* &compaction_end) of the leveled and universal pickers.
CompactRange(input_level, output_level, begin, end) ==
    /\ version.style # kCompactionStyleFIFO
    /\ Return("CompactRange", ManualPick(input_level, output_level, begin, end), FALSE)
    /\ UNCHANGED <<version, next_file_to_compact_by_size_>>

\* FIFOCompactionPicker::CompactRange: *compaction_end = nullptr, then PickCompaction.
FIFOCompactRange ==
    /\ version.style = kCompactionStyleFIFO
    /\ Return("CompactRange",
              [c |-> FIFOPick, marked |-> FIFOPick,
               growth |-> NoGrowth(<<>>, <<>>), compaction_end |-> Null],
              TRUE)
    /\ UNCHANGED <<version, next_file_to_compact_by_size_>>

\* Compaction::ResetNextCompactionIndex: the cursor of c's level goes back to
\* the start of files_by_size_.
ResetNextCompactionIndex(c, cursors) == [cursors EXCEPT ![c.level] = 0]

\* A ReleaseCompactionFiles that leaves the cursor alone whatever the status.
ReleaseCompactionFilesNoReset(c, status) ==
    /\ being_compacted' = MarkFilesBeingCompacted(c, FALSE, being_compacted)
    /\ compactions_in_progress_' =
          [compactions_in_progress_ EXCEPT ![c.level] = @ (-) SetToBag({c})]
    /\ live' = live (-) SetToBag({c})
    /\ last' = Call("ReleaseCompactionFiles", c, NoGrowth(<<>>, <<>>), NotSet, status)
    /\ UNCHANGED <<version, next_file_to_compact_by_size_>>

\* A ReleaseCompactionFiles that keeps a failed compaction in the list of
\* running compactions.
ReleaseCompactionFilesKeepFailed(c, status) ==
    /\ being_compacted' = MarkFilesBeingCompacted(c, FALSE, being_compacted)
    /\ compactions_in_progress_' =
          IF status # "OK"
          THEN compactions_in_progress_
          ELSE [compactions_in_progress_ EXCEPT ![c.level] = @ (-) SetToBag({c})]
    /\ next_file_to_compact_by_size_' =
          IF status # "OK"
          THEN ResetNextCompactionIndex(c, next_file_to_compact_by_size_)
          ELSE next_file_to_compact_by_size_
    /\ live' = live (-) SetToBag({c})
    /\ last' = Call("ReleaseCompactionFiles", c, NoGrowth(<<>>, <<>>), NotSet, status)
    /\ UNCHANGED version

\* CompactionPicker::ReleaseCompactionFiles(c, status)
ReleaseCompactionFiles(c, status) ==
    /\ being_compacted' = MarkFilesBeingCompacted(c, FALSE, being_compacted)
    /\ compactions_in_progress_' =
          [compactions_in_progress_ EXCEPT ![c.level] = @ (-) SetToBag({c})]
    /\ next_file_to_compact_by_size_' =
          IF status # "OK"
          THEN ResetNextCompactionIndex(c, next_file_to_compact_by_size_)
          ELSE next_file_to_compact_by_size_
    /\ live' = live (-) SetToBag({c})
    /\ last' = Call("ReleaseCompactionFiles", c, NoGrowth(<<>>, <<>>), NotSet, status)
    /\ UNCHANGED version

\* The keys a manual compaction is asked for: one of the user keys chosen for
\* the Version (with sequence number 0), or no bound.  The input level is one
\* of the levels chosen for the Version.
ManualKeys == {InternalKey(k, 0) : k \in version.manual_keys} \cup {Null}

\* The ranges asked for: begin does not lie after end.
ManualRanges ==
    {r \in ManualKeys \X ManualKeys :
        IF r[1] = Null \/ r[2] = Null THEN TRUE ELSE r[1][1] <= r[2][1]}

\* No call is made by a process that has died.
ManualCompaction ==
    /\ last.status # "Crashed"
    /\ \E input_level \in version.manual_levels, r \in ManualRanges :
         \E output_level \in {input_level, input_level + 1} \cap Levels :
           CompactRange(input_level, output_level, r[1], r[2])

Release ==
    /\ last.status # "Crashed"
    /\ \E c \in Live, status \in {"OK", "IOError"} : ReleaseCompactionFiles(c, status)

Next ==
    \/ LevelPickCompaction
    \/ FIFOPickCompaction
    \/ ManualCompaction
    \/ FIFOCompactRange
    \/ Release

Spec == Init /\ [][Next]_vars

\* The automatic pickers alone: no manual compaction is ever requested.
NextPick ==
    \/ LevelPickCompaction
    \/ FIFOPickCompaction
    \/ Release

SpecPick == Init /\ [][NextPick]_vars

\* The leveled picker under manual compactions: scenario S6 and the layouts
\* whose files share boundary user keys or overlap at level 0.
ManualVersions == {VersionS6, VersionChain, VersionL0, VersionS1}

InitManual ==
    /\ version \in ManualVersions
    /\ being_compacted = [f \in FileNumbers |-> FALSE]
    /\ next_file_to_compact_by_size_ = [l \in Levels |-> 0]
    /\ compactions_in_progress_ = [l \in Levels |-> EmptyBag]
    /\ live = EmptyBag
    /\ last = Call("Init", nullptr, NoGrowth(<<>>, <<>>), NotSet, "OK")

NextManual ==
    \/ LevelPickCompaction
    \/ ManualCompaction
    \/ Release

SpecManual == InitManual /\ [][NextManual]_vars

\* The leveled picker over level-0 files: layouts whose level 0 warrants a
\* compaction, with manual compactions of level 1 holding the files under it.
Level0Versions == {VersionL0, VersionL0Grow}

InitLevel0 ==
    /\ version \in Level0Versions
    /\ being_compacted = [f \in FileNumbers |-> FALSE]
    /\ next_file_to_compact_by_size_ = [l \in Levels |-> 0]
    /\ compactions_in_progress_ = [l \in Levels |-> EmptyBag]
    /\ live = EmptyBag
    /\ last = Call("Init", nullptr, NoGrowth(<<>>, <<>>), NotSet, "OK")

SpecLevel0 == InitLevel0 /\ [][NextManual]_vars

-----------------------------------------------------------------------------
(* The universal picker as a state machine *)

\* UniversalCompactionPicker::PickCompaction.  Where the call reads outside
\* files_[0] the behaviour is undefined: the process dies there, or the read
\* comes back with a file that is being compacted and the call returns
\* nothing.
UniversalPickCompaction ==
    /\ version.style = kCompactionStyleUniversal
    /\ last.status # "Crashed"
    /\ IF UniversalPick = UndefinedBehaviour
       THEN /\ \E outcome \in {"Crashed", "OK"} :
                 last' = Call("PickCompaction", nullptr, NoGrowth(<<>>, <<>>),
                              NotSet, outcome)
            /\ UNCHANGED <<being_compacted, compactions_in_progress_, live>>
       ELSE Return("PickCompaction",
                   [c |-> UniversalPick, marked |-> UniversalPick,
                    growth |-> NoGrowth(<<>>, <<>>), compaction_end |-> NotSet],
                   TRUE)
    /\ UNCHANGED <<version, next_file_to_compact_by_size_>>

\* The compactions a universal picker may still have in progress when it is
\* handed Version v: none, or one picked from an earlier Version whose files
\* (a run of at least two neighbours) are all still in v.  The earlier
\* Version held the files of v from position k on, the files before k having
\* been flushed in front since; bottommost_level_ and is_full_compaction_ were
\* written from the earlier Version, whose oldest file is the oldest of v.
CarriedOver(v) ==
    {{}} \cup
    {{[bottommost_level_ |-> p[2] = Len(v.files_[0]),
       is_full_compaction_ |-> p[3] = p[1] /\ p[2] = Len(v.files_[0])]
         @@ [NewCompaction(0, 0) EXCEPT !.inputs0 = SubSeq(v.files_[0], p[1], p[2])]} :
        p \in {q \in (1..Len(v.files_[0])) \X (1..Len(v.files_[0])) \X (1..Len(v.files_[0])) :
                  q[3] <= q[1] /\ q[1] < q[2]}}

\* The universal picker is constructed and given a Version, with the
\* compactions carried over marked and registered.
InitUniversal ==
    /\ version \in UniversalVersions
    /\ compactions_in_progress_ \in {[l \in 0..0 |-> SetToBag(cs)] : cs \in CarriedOver(version)}
    /\ live = compactions_in_progress_[0]
    /\ being_compacted =
          [f \in 1..Len(version.meta) |->
              \E c \in BagToSet(compactions_in_progress_[0]) : f \in SeqRange(c.inputs0)]
    /\ next_file_to_compact_by_size_ = [l \in 0..0 |-> 0]
    /\ last = Call("Init", nullptr, NoGrowth(<<>>, <<>>), NotSet, "OK")

NextUniversal ==
    \/ UniversalPickCompaction
    \/ ManualCompaction
    \/ Release

SpecUniversal == InitUniversal /\ [][NextUniversal]_vars

\* The universal picker on the layouts of the size-ratio and file-count
\* sub-policies.
InitReadAmp ==
    /\ version \in ReadAmpVersions
    /\ compactions_in_progress_ \in {[l \in 0..0 |-> SetToBag(cs)] : cs \in CarriedOver(version)}
    /\ live = compactions_in_progress_[0]
    /\ being_compacted =
          [f \in 1..Len(version.meta) |->
              \E c \in BagToSet(compactions_in_progress_[0]) : f \in SeqRange(c.inputs0)]
    /\ next_file_to_compact_by_size_ = [l \in 0..0 |-> 0]
    /\ last = Call("Init", nullptr, NoGrowth(<<>>, <<>>), NotSet, "OK")

SpecReadAmp == InitReadAmp /\ [][NextUniversal]_vars

\* The universal picker on the layouts of the file-count sub-policy.
InitFileCount ==
    /\ version \in FileCountVersions
    /\ compactions_in_progress_ \in {[l \in 0..0 |-> SetToBag(cs)] : cs \in CarriedOver(version)}
    /\ live = compactions_in_progress_[0]
    /\ being_compacted =
          [f \in 1..Len(version.meta) |->
              \E c \in BagToSet(compactions_in_progress_[0]) : f \in SeqRange(c.inputs0)]
    /\ next_file_to_compact_by_size_ = [l \in 0..0 |-> 0]
    /\ last = Call("Init", nullptr, NoGrowth(<<>>, <<>>), NotSet, "OK")

SpecFileCount == InitFileCount /\ [][NextUniversal]_vars

-----------------------------------------------------------------------------
(* The universal picker between newer Versions *)

\* A newer Version is installed after a flush: a new file in front of
\* files_[0], holding sequence numbers above all others.  The FileMetaData
\* objects of the other files, their being_compacted flags included, are
\* shared with the Version before.  At most MaxFlushed files are added, of a
\* size out of FlushedSizes.
MaxFlushed == 1
FlushedSizes == {10, 200}
FlushedSeqno == 101

FlushedFiles == {f \in FileNumbers : Meta(f).smallest_seqno >= FlushedSeqno}

VersionWithNewerFile(v, size) ==
    [v EXCEPT
       !.meta = Append(@, UniversalFile(FlushedSeqno + 10 * Len(@),
                                        FlushedSeqno + 10 * Len(@) + 9, size, size)),
       !.files_ = [l \in 0..0 |-> <<Len(v.meta) + 1>> \o @[0]],
       !.files_by_size_ =
          [l \in 0..0 |->
              SortBySize(Append(v.meta, UniversalFile(0, 0, size, size)),
                         <<Len(v.meta) + 1>> \o v.files_[0],
                         0..Len(v.meta))]]

NewerFileAdded ==
    /\ version.style = kCompactionStyleUniversal
    /\ last.status # "Crashed"
    /\ Cardinality(FlushedFiles) < MaxFlushed
    /\ \E size \in FlushedSizes : version' = VersionWithNewerFile(version, size)
    /\ being_compacted' = Append(being_compacted, FALSE)
    /\ last' = Call("NewerFileAdded", nullptr, NoGrowth(<<>>, <<>>), NotSet, "OK")
    /\ UNCHANGED <<next_file_to_compact_by_size_, compactions_in_progress_, live>>

\* PickCompaction and ReleaseCompactionFiles alone, over the Versions of a
\* column family that is being written to: no manual compaction is asked for.
NextTiered ==
    \/ UniversalPickCompaction
    \/ Release
    \/ NewerFileAdded

SpecTiered == InitUniversal /\ [][NextTiered]_vars

-----------------------------------------------------------------------------

(* The sanitizer as a state machine *)

\* The calls of SanitizeCompactionInputFiles: a column family with at most
\* MaxBusy files being compacted, a set of at most MaxInputFiles file numbers
\* (two of them unknown to the column family) and an output level from below
\* kDeletionCompaction to past the last level.  last holds the set the
\* caller's pointer leads to and the set it held before the call.
MaxBusy == 1
MaxInputFiles == 2

UnknownFiles == {0, Len(version.meta) + 1}

InputSets ==
    {S \in SUBSET (FileNumbers \cup UnknownFiles) : Cardinality(S) <= MaxInputFiles}

OutputLevels == (kDeletionCompaction - 1)..NumberLevels

SanitizeCall(op, requested, output_level, st) ==
    [input_files |-> st.input_files, requested |-> requested,
     output_level |-> output_level]
    @@ Call(op, nullptr, NoGrowth(<<>>, <<>>), NotSet, st.status)

InitSanitize ==
    /\ version \in SanitizeVersions
    /\ being_compacted \in
          {b \in [FileNumbers -> BOOLEAN] :
              Cardinality({f \in FileNumbers : b[f]}) <= MaxBusy}
    /\ next_file_to_compact_by_size_ = [l \in Levels |-> 0]
    /\ compactions_in_progress_ = [l \in Levels |-> EmptyBag]
    /\ live = EmptyBag
    /\ \E input_files \in InputSets, output_level \in OutputLevels :
          last = SanitizeCall("Init", input_files, output_level,
                              SanitizeLocals(input_files))

\* The caller runs SanitizeCompactionInputFiles on the set it holds, and
\* again on the result as long as the status is OK.
SanitizeInputFiles ==
    /\ last.status = "OK"
    /\ last' = SanitizeCall("SanitizeCompactionInputFiles",
                            last.input_files, last.output_level,
                            SanitizeCompactionInputFiles(last.input_files,
                                                         last.output_level))
    /\ UNCHANGED <<version, being_compacted, next_file_to_compact_by_size_,
                   compactions_in_progress_, live>>

NextSanitize == SanitizeInputFiles

SpecSanitize == InitSanitize /\ [][NextSanitize]_vars

-----------------------------------------------------------------------------
(* GetCompactionInputsFromFileNumbers as a state machine *)

\* The calls of GetCompactionInputsFromFileNumbers: a Version and a set of at
\* most MaxInputFiles file numbers (two of them unknown to the Version).
\* last holds the set asked for, the lists returned and the set left.
InputsVersions == {VersionL0, VersionChain, VersionS1, VersionS5}

InputsCall(op, requested, r) ==
    [requested |-> requested, input_files |-> r.input_files, input_set |-> r.input_set]
    @@ Call(op, nullptr, NoGrowth(<<>>, <<>>), NotSet, r.status)

InitInputs ==
    /\ version \in InputsVersions
    /\ being_compacted = [f \in FileNumbers |-> FALSE]
    /\ next_file_to_compact_by_size_ = [l \in Levels |-> 0]
    /\ compactions_in_progress_ = [l \in Levels |-> EmptyBag]
    /\ live = EmptyBag
    /\ \E input_set \in InputSets :
          last = InputsCall("Init", input_set,
                    [status |-> "OK", input_files |-> <<>>, input_set |-> input_set])

\* The caller runs GetCompactionInputsFromFileNumbers on the set it holds,
\* and after an OK on the file numbers of the lists it got.
GetInputs ==
    /\ last.status = "OK"
    /\ \E input_set \in {IF last.op = "Init" THEN last.requested
                         ELSE ToFileNumbers(last.input_files)} :
          last' = InputsCall("GetCompactionInputsFromFileNumbers", input_set,
                             GetCompactionInputsFromFileNumbers(input_set))
    /\ UNCHANGED <<version, being_compacted, next_file_to_compact_by_size_,
                   compactions_in_progress_, live>>

NextInputs == GetInputs

SpecInputs == InitInputs /\ [][NextInputs]_vars

-----------------------------------------------------------------------------
(* The pluggable picker as a state machine *)

\* What a Compactor may answer: a status, file numbers and an output level.
CompactorStatuses == {"OK", "NotSupported"}

\* The return of the pluggable calls: FormCompaction marks the files of the
\* compaction it builds, and the paths that leave before it build none.
ReturnUnregistered(op, c) ==
    Return(op, [c |-> c, marked |-> c, growth |-> NoGrowth(<<>>, <<>>),
                compaction_end |-> NotSet],
           FALSE)

\* PluggableCompactionPicker::PickCompaction
PluggablePickCompaction ==
    /\ version.style = kCompactionStylePluggable
    /\ \E s \in CompactorStatuses, input_file_numbers \in InputSets,
          output_level \in OutputLevels :
          ReturnUnregistered("PickCompaction",
                             PluggablePick(s, input_file_numbers, output_level))
    /\ UNCHANGED <<version, next_file_to_compact_by_size_>>

\* PluggableCompactionPicker::CompactRange
PluggableCompactRange ==
    /\ version.style = kCompactionStylePluggable
    /\ \E s \in CompactorStatuses, input_file_numbers \in InputSets,
          output_level \in OutputLevels :
          ReturnUnregistered("CompactRange",
                             PluggablePickByRange(s, input_file_numbers, output_level))
    /\ UNCHANGED <<version, next_file_to_compact_by_size_>>

\* Every strategy: the leveled, FIFO, universal and pluggable pickers, each
\* on its own column families.
InitAll ==
    \/ Init
    \/ InitUniversal
    \/ /\ version \in PluggableVersions
       /\ being_compacted = [f \in FileNumbers |-> FALSE]
       /\ next_file_to_compact_by_size_ = [l \in Levels |-> 0]
       /\ compactions_in_progress_ = [l \in Levels |-> EmptyBag]
       /\ live = EmptyBag
       /\ last = Call("Init", nullptr, NoGrowth(<<>>, <<>>), NotSet, "OK")

NextAll ==
    \/ LevelPickCompaction
    \/ FIFOPickCompaction
    \/ UniversalPickCompaction
    \/ PluggablePickCompaction
    \/ ManualCompaction
    \/ FIFOCompactRange
    \/ PluggableCompactRange
    \/ Release

SpecAll == InitAll /\ [][NextAll]_vars

-----------------------------------------------------------------------------
(* ExpandWhileOverlapping as a state machine *)

\* The column families the expansion is run on: leveled, with files that
\* touch on a boundary user key (Chain, Wide), level-0 files that overlap
\* (L0, Grow) and files under one another at level+1.
ExpandVersions ==
    {VersionChain, VersionS1, VersionL0, VersionGrow, VersionWide,
     VersionBlocked, VersionS6}

\* The user keys CompactRange may be asked for at a level: every key from
\* just below the smallest key of the level's files to just above the largest,
\* with sequence number 0, or no bound.
SeedKeys(level) ==
    {InternalKey(k, 0) :
        k \in UNION {(Meta(f).smallest[1] - 1)..(Meta(f).largest[1] + 1) :
                        f \in SeqRange(FilesAt(level))}}
    \cup {Null}

\* The lists CompactRange takes from GetOverlappingInputs(level, begin, end)
\* and goes on with: those that are not empty.
RangeLists(level) ==
    {GetOverlappingInputs(level, r[1], r[2]) :
        r \in {q \in SeedKeys(level) \X SeedKeys(level) :
                  IF q[1] = Null \/ q[2] = Null THEN TRUE ELSE q[1][1] <= q[2][1]}}
    \ {<<>>}

\* The inputs_[0] a caller hands over.  PickCompactionBySize seeds one file.
\* CompactRange hands over the files GetOverlappingInputs returned for the
\* range it was asked for: all of them at level 0, and above level 0 as many
\* of the first of them as the size cap leaves (at least one).  The empty list
\* is the case ExpandWhileOverlapping itself provides for in its first test.
SeedLists(level) ==
    {<<>>} \cup {<<f>> : f \in SeqRange(FilesAt(level))}
    \cup (IF level = 0
          THEN RangeLists(0)
          ELSE UNION {{SubSeq(m, 1, n) : n \in 1..Len(m)} : m \in RangeLists(level)})

\* What the caller sees of one call: the inputs_[0] handed over, the return
\* value, the Compaction afterwards and the passes the loop made.
ExpandCall(op, c, e) ==
    [seed |-> c.inputs0, ok |-> e.ok,
     passes |-> IF c.inputs0 # <<>> /\ c.level > 0
                THEN ExpandPasses(c.level, c.inputs0) ELSE <<>>]
    @@ Call(op, e.c, NoGrowth(<<>>, <<>>), NotSet, "OK")

InitExpand ==
    /\ version \in ExpandVersions
    /\ being_compacted \in
          {b \in [FileNumbers -> BOOLEAN] :
              Cardinality({f \in FileNumbers : b[f]}) <= MaxBusy}
    /\ next_file_to_compact_by_size_ = [l \in Levels |-> 0]
    /\ compactions_in_progress_ = [l \in Levels |-> EmptyBag]
    /\ live = EmptyBag
    /\ last = ExpandCall("Init", nullptr, [ok |-> FALSE, c |-> nullptr])

\* One call ExpandWhileOverlapping(c) on a fresh Compaction of level into
\* output_level whose inputs_[0] is seed and whose inputs_[1] is empty.
Expand ==
    /\ \E level \in Levels :
         \E seed \in SeedLists(level), output_level \in {level, level + 1} \cap Levels :
            last' = ExpandCall("ExpandWhileOverlapping",
                               [NewCompaction(level, output_level) EXCEPT
                                   !.inputs0 = seed],
                               ExpandWhileOverlapping(
                                   [NewCompaction(level, output_level) EXCEPT
                                       !.inputs0 = seed]))
    /\ UNCHANGED <<version, being_compacted, next_file_to_compact_by_size_,
                   compactions_in_progress_, live>>

NextExpand == Expand

SpecExpand == InitExpand /\ [][NextExpand]_vars

-----------------------------------------------------------------------------
(* GetPathId as a state machine *)

\* The calls of GetPathId: at most MaxPaths paths with target sizes out of
\* TargetSizes, a file size out of FileSizes and a size_ratio out of
\* SizeRatios.  last holds the arguments and the path returned.
MaxPaths == 3
TargetSizes == {0, 5, 10, 20}
FileSizes == {0, 4, 5, 12, 40}
SizeRatios == {0, 1, 50, 100, 101, 150}

PathLists ==
    UNION {[1..n -> TargetSizes] : n \in 1..MaxPaths}

PathCall(op, db_paths, file_size, size_ratio, p) ==
    [db_paths |-> db_paths, file_size |-> file_size, size_ratio |-> size_ratio,
     path_id |-> p]
    @@ Call(op, nullptr, NoGrowth(<<>>, <<>>), NotSet, "OK")

InitPath ==
    /\ version = VersionS4
    /\ being_compacted = [f \in FileNumbers |-> FALSE]
    /\ next_file_to_compact_by_size_ = [l \in Levels |-> 0]
    /\ compactions_in_progress_ = [l \in Levels |-> EmptyBag]
    /\ live = EmptyBag
    /\ \E db_paths \in PathLists, file_size \in FileSizes, size_ratio \in SizeRatios :
          last = PathCall("Init", db_paths, file_size, size_ratio, 0)

\* The caller runs GetPathId on the arguments it holds.  With no path
\* configured the call reads outside db_paths and its behaviour is
\* undefined: the process dies, or the call returns some path id.
GetPath ==
    /\ last.op = "Init"
    /\ IF last.db_paths = <<>>
       THEN \E o \in {[status |-> "Crashed", p |-> 0]}
                      \cup {[status |-> "OK", p |-> p] : p \in 0..MaxPaths} :
              last' = [PathCall("GetPathId", last.db_paths, last.file_size,
                                last.size_ratio, o.p) EXCEPT !.status = o.status]
       ELSE last' = PathCall("GetPathId", last.db_paths, last.file_size, last.size_ratio,
                             GetPathId(last.db_paths, last.file_size, last.size_ratio))
    /\ UNCHANGED <<version, being_compacted, next_file_to_compact_by_size_,
                   compactions_in_progress_, live>>

NextPath == GetPath

SpecPath == InitPath /\ [][NextPath]_vars

-----------------------------------------------------------------------------

(* Properties *)

\* The input files of compaction c, both levels.
InputFiles(c) == SeqRange(c.inputs0) \cup SeqRange(c.inputs1)

\* C1: in every reachable state a file has being_compacted set exactly when
\* it is an input (inputs_[0] or inputs_[1]) of some live compaction.
C1_FlagIffInputOfLive ==
    \A f \in FileNumbers :
        being_compacted[f] <=> \E c \in Live : f \in InputFiles(c)

\* C3: compactions_in_progress_[level] is exactly the set of live compactions
\* whose input level is that level, whichever call handed them out.
C3_InProgressIsLive ==
    \A level \in Levels :
        /\ BagToSet(compactions_in_progress_[level]) = {c \in Live : c.level = level}
        /\ \A c \in BagToSet(compactions_in_progress_[level]) :
              CopiesIn(c, compactions_in_progress_[level]) = CopiesIn(c, live)

\* The user-key ranges of inputs_[0] of compactions c1 and c2 overlap.
Inputs0RangesOverlap(c1, c2) ==
    /\ GetRange(c1.inputs0)[1][1] <= GetRange(c2.inputs0)[2][1]
    /\ GetRange(c2.inputs0)[1][1] <= GetRange(c1.inputs0)[2][1]

\* C2: under the leveled strategy, after any sequence of PickCompaction and
\* ReleaseCompactionFiles calls, no file is an input of two live compactions
\* and no two live compactions with the same input level have inputs_[0]
\* with overlapping user-key ranges.
C2_LiveCompactionsDisjoint ==
    version.style = kCompactionStyleLevel =>
        /\ \A c \in Live : CopiesIn(c, live) = 1
        /\ \A c1, c2 \in Live :
              c1 # c2 =>
                /\ InputFiles(c1) \cap InputFiles(c2) = {}
                /\ c1.level = c2.level => ~Inputs0RangesOverlap(c1, c2)

\* Two compactions picked at the same level are live together.
C2_Witness ==
    /\ version.style = kCompactionStyleLevel
    /\ \E c1, c2 \in Live :
          c1 # c2 /\ c1.level = c2.level /\ c1.level > 0 /\ c1.inputs1 # <<>>

\* C4: under the leveled and FIFO strategies compactions_in_progress_[0] holds
\* at most one compaction: a pick that returns a level-0 (or FIFO) compaction
\* was made while none was registered there.
C4_AtMostOneLevel0 ==
    /\ BagCardinality(compactions_in_progress_[0]) <= 1
    /\ /\ last.op \in {"PickCompaction", "CompactRange"}
       /\ last.c # nullptr
       /\ last.c.level = 0
       /\ ~last.c.is_manual_compaction_
       => compactions_in_progress_[0] = SetToBag({last.c})

\* A level-0 (or FIFO) compaction is registered and a later pick returned
\* nothing although level 0 still asks for work: enough free level-0 files
\* for the trigger (leveled) or a total size above the cap (FIFO).
C4_Witness ==
    /\ BagCardinality(compactions_in_progress_[0]) = 1
    /\ last.op = "PickCompaction"
    /\ last.c = nullptr
    /\ IF version.style = kCompactionStyleFIFO
       THEN TotalCompensatedFileSize(FilesAt(0)) > version.options.max_table_files_size
       ELSE ScoreAtLeastOne(LevelScore(0, SizeBeingCompacted))

\* The last call returned a compaction of the leveled picker with an input
\* level above 0.
ReturnedAboveLevel0 ==
    /\ version.style = kCompactionStyleLevel
    /\ last.op \in {"PickCompaction", "CompactRange"}
    /\ last.c # nullptr
    /\ last.c.level > 0

\* C5: after a successful leveled PickCompaction or CompactRange at a level
\* above 0, no file of that level outside inputs_[0] overlaps the user-key
\* range of inputs_[0], lateral growth included.
C5_CleanCut ==
    ReturnedAboveLevel0 =>
        \A f \in SeqRange(FilesAt(last.c.level)) \ SeqRange(last.c.inputs0) :
            ~UserRangeOverlaps(f, TRUE, GetRange(last.c.inputs0)[1][1],
                                  TRUE, GetRange(last.c.inputs0)[2][1])

\* A pick above level 0 whose lateral growth was accepted, at a level that
\* has files outside inputs_[0].
C5_Witness ==
    /\ ReturnedAboveLevel0
    /\ last.growth.expanded
    /\ Len(last.c.inputs0) < Len(FilesAt(last.c.level))

-----------------------------------------------------------------------------
(* The leveled pick, stated over sets of files *)

\* Some file of the set S is being compacted.
Busy(S) == \E f \in S : being_compacted[f]

\* File g's user-key range meets the user-key hull of the files S.
MeetsHull(g, S) ==
    /\ \E f \in S : Meta(g).smallest[1] <= Meta(f).largest[1]
    /\ \E f \in S : Meta(g).largest[1] >= Meta(f).smallest[1]

\* The files of level + 1 under the user-key hull of S.
ParentsOf(level, S) == {g \in SeqRange(FilesAt(level + 1)) : MeetsHull(g, S)}

\* The clean cut around file f: the least set of files of the level that
\* holds f and every file of the level meeting its hull.
CleanCut(level, f) ==
    CHOOSE S \in SUBSET SeqRange(FilesAt(level)) :
        /\ f \in S
        /\ \A g \in SeqRange(FilesAt(level)) : MeetsHull(g, S) => g \in S
        /\ \A T \in SUBSET S :
              (f \in T /\ \A g \in S : MeetsHull(g, T) => g \in T) => T = S

\* The levels that have a score, and whether a level's score is at least 1.
ScoredLevels == 0..(NumberLevels - 2)
ScoreOf(level) == LevelScore(level, SizeBeingCompacted)
Warranted(level) == ScoreOf(level).num >= ScoreOf(level).den

\* The files PickCompactionBySize may seed level with: at or after the cursor
\* in size order, free, with free files under them at level + 1.
SeedRanks(level) ==
    {i \in 0..(Len(version.files_by_size_[level]) - 1) :
        /\ next_file_to_compact_by_size_[level] >= 0
        /\ i >= next_file_to_compact_by_size_[level]
        /\ ~being_compacted[FilesAt(level)[version.files_by_size_[level][i + 1] + 1]]
        /\ ~Busy(ParentsOf(level,
                  {FilesAt(level)[version.files_by_size_[level][i + 1] + 1]}))}

\* The seed of the level: the first of them.
SeedOf(level) ==
    FilesAt(level)[version.files_by_size_[level][Min(SeedRanks(level)) + 1] + 1]

\* The level yields a candidate: it has a seed (level 0 only with no level-0
\* compaction in progress) and, above level 0, the seed's clean cut has no
\* busy file and no busy file under it.
Yields(level) ==
    /\ Warranted(level)
    /\ ~(level = 0 /\ compactions_in_progress_[0] # EmptyBag)
    /\ SeedRanks(level) # {}
    /\ level > 0 => /\ ~Busy(CleanCut(level, SeedOf(level)))
                    /\ ~Busy(ParentsOf(level, CleanCut(level, SeedOf(level))))

\* The level-0 step gives up: a level-1 file under the level-0 files that
\* overlap the seed is being compacted.
Level0GivesUp == Busy(ParentsOf(0, CleanCut(0, SeedOf(0))))

\* No yielding level has a higher score than level.
FirstYielding(level) ==
    /\ Yields(level)
    /\ \A other \in ScoredLevels :
          Yields(other) => ~ScoreLess(ScoreOf(level), ScoreOf(other))

\* A file that is free, whose clean cut is free and has only free files
\* under it, at a level with score at least 1.
WorkWarranted ==
    \E level \in ScoredLevels :
        /\ Warranted(level)
        /\ \E f \in SeqRange(FilesAt(level)) :
              /\ ~Busy(CleanCut(level, f))
              /\ ~Busy(ParentsOf(level, CleanCut(level, f)))

\* The step is a call of the leveled PickCompaction that returned c.
LevelPickReturns(c) ==
    /\ version.style = kCompactionStyleLevel
    /\ last'.op = "PickCompaction"
    /\ last'.c = c

\* C6 as stated: a leveled PickCompaction returns no compaction only when no
\* level with score at least 1 holds a free file whose clean cut is free and
\* whose files at level+1 are free.
C6_NothingOnlyIfNoWork ==
    [][LevelPickReturns(nullptr) => ~WorkWarranted]_vars

\* C6 amended: a leveled PickCompaction returns no compaction only when no
\* level with score at least 1 yields a candidate (the first free file with
\* free parents at or after the level's cursor, whose clean cut is free with
\* free parents), or when the first level that yields one is level 0 and a
\* level-1 file under the re-expanded level-0 inputs is being compacted.
C6_NothingOnlyIfNoCandidate ==
    [][LevelPickReturns(nullptr) =>
          \/ \A level \in ScoredLevels : ~Yields(level)
          \/ FirstYielding(0) /\ Level0GivesUp]_vars

\* A pick returned nothing because the level-0 step gave up, while a file of
\* level 1 is free with a free clean cut and level 1 has score at least 1.
C6_Witness ==
    /\ version.style = kCompactionStyleLevel
    /\ last.op = "PickCompaction"
    /\ last.c = nullptr
    /\ compactions_in_progress_[0] = EmptyBag
    /\ Warranted(0)
    /\ Warranted(1)
    /\ \E f \in SeqRange(FilesAt(1)) : ~Busy(CleanCut(1, f))
    /\ Busy(SeqRange(FilesAt(1)))

\* The step is a call of the leveled PickCompaction.
LevelPickStep ==
    /\ version.style = kCompactionStyleLevel
    /\ last'.op = "PickCompaction"

\* C7 as stated: a leveled PickCompaction returns a compaction for the first
\* level, in descending score order, with score at least 1 whose candidate
\* survives the clean-cut expansion; never one for a level with score below
\* 1; and nothing when every score is below 1.
C7_FirstSurvivingLevel ==
    [][LevelPickStep =>
          /\ (\E level \in ScoredLevels : Yields(level)) =>
                last'.c # nullptr /\ FirstYielding(last'.c.level)
          /\ last'.c # nullptr => Warranted(last'.c.level)
          /\ (\A level \in ScoredLevels : ~Warranted(level)) => last'.c = nullptr]_vars

\* C7 amended: a leveled PickCompaction returns a compaction for the first
\* level, in descending score order, with score at least 1 whose candidate
\* survives the clean-cut expansion, except that it returns nothing when that
\* level is level 0 and a level-1 file under the re-expanded level-0 inputs is
\* being compacted; it never returns one for a level with score below 1, and
\* returns nothing when every score is below 1.
C7_FirstSurvivingLevelUnlessLevel0Busy ==
    [][LevelPickStep =>
          /\ (\E level \in ScoredLevels : Yields(level)) =>
                \/ last'.c # nullptr /\ FirstYielding(last'.c.level)
                                     /\ (last'.c.level = 0 => ~Level0GivesUp)
                \/ last'.c = nullptr /\ FirstYielding(0) /\ Level0GivesUp
          /\ last'.c # nullptr => Warranted(last'.c.level)
          /\ (\A level \in ScoredLevels : ~Warranted(level)) => last'.c = nullptr]_vars

\* The score the level of compaction c had when c was picked.
ScoreWhenPicked(c) ==
    [num |-> ScoreOf(c.level).num + TotalCompensatedFileSize(c.inputs0),
     den |-> ScoreOf(c.level).den]

\* A pick returned a compaction for a level above 0 although another level
\* had, and has, a higher score at least 1: that level was visited first and
\* its candidate did not survive.
C7_Witness ==
    /\ version.style = kCompactionStyleLevel
    /\ last.op = "PickCompaction"
    /\ last.c # nullptr
    /\ last.c.level > 0
    /\ ScoreWhenPicked(last.c).num >= ScoreWhenPicked(last.c).den
    /\ \E other \in ScoredLevels \ {0, last.c.level} :
          ScoreLess(ScoreWhenPicked(last.c), ScoreOf(other))

-----------------------------------------------------------------------------
(* Scenario S2 *)

\* Scenario S2: the layout of S1 (level 1: A = file 1, B = file 2, C = file 3;
\* level 2: X = file 4) with X alone being compacted, fresh cursors, level-1
\* score 700/538 = 1.3 and every other score below 1.
ScenarioS2 ==
    /\ version.name = "S1"
    /\ being_compacted = <<FALSE, FALSE, FALSE, TRUE>>
    /\ next_file_to_compact_by_size_ = [l \in Levels |-> 0]
    /\ ScoreOf(1).num = 700 /\ ScoreOf(1).den = 538
    /\ \A level \in ScoredLevels \ {1} : ~Warranted(level)

\* C8 as stated: in scenario S2 PickCompaction skips B and returns no
\* compaction.
C8_S2ReturnsNothing ==
    [][(ScenarioS2 /\ last'.op = "PickCompaction")
          => last'.c = nullptr]_vars

\* C8 amended: in scenario S2 PickCompaction skips B and C, whose ranges both
\* overlap the busy X, and returns the level-1 compaction of A alone with no
\* level-2 input.
C8_S2ReturnsA ==
    [][(ScenarioS2 /\ last'.op = "PickCompaction")
          => /\ last'.c.level = 1
             /\ last'.c.inputs0 = <<1>>
             /\ last'.c.inputs1 = <<>>
             /\ being_compacted' = <<TRUE, FALSE, FALSE, TRUE>>]_vars

\* The pick of scenario S2 has returned: A is its only input, X is busy
\* under another compaction, B and C are free.
C8_Witness ==
    /\ version.name = "S1"
    /\ last.op = "PickCompaction"
    /\ last.c.level = 1
    /\ last.c.inputs0 = <<1>>
    /\ being_compacted = <<TRUE, FALSE, FALSE, TRUE>>
    /\ \E c \in Live : 4 \in InputFiles(c) /\ c.is_manual_compaction_

-----------------------------------------------------------------------------
(* The cursor after a release *)

\* The position in files_by_size_[c.level] of the seed of compaction c.
SeedRank(c) ==
    CHOOSE i \in 0..(Len(version.files_by_size_[c.level]) - 1) :
        version.files_by_size_[c.level][i + 1] = c.base_index_

\* The step is a call of ReleaseCompactionFiles.
ReleaseStep == last'.op = "ReleaseCompactionFiles" /\ live' # live

\* C9: a release with a non-OK status of a compaction at level L leaves the
\* cursor of L at or before the released seed file, so that the next scan of
\* PickCompactionBySize at L, which starts at the cursor, covers that file
\* again; a release with an OK status leaves the cursors unchanged.
C9_NonOKReleaseRewinds ==
    [][ReleaseStep =>
          IF last'.status = "OK"
          THEN next_file_to_compact_by_size_' = next_file_to_compact_by_size_
          ELSE /\ next_file_to_compact_by_size_'[last'.c.level] >= 0
               /\ last'.c.base_index_ >= 0 =>
                     /\ next_file_to_compact_by_size_'[last'.c.level] <= SeedRank(last'.c)
                     /\ ~being_compacted'[FilesAt(last'.c.level)[last'.c.base_index_ + 1]]
               /\ \A level \in Levels \ {last'.c.level} :
                     next_file_to_compact_by_size_'[level] =
                         next_file_to_compact_by_size_[level]]_vars

\* A picked compaction has been released with a non-OK status while a later
\* pick at the same level, seeded further along files_by_size_, is live.
C9_Witness ==
    /\ last.op = "ReleaseCompactionFiles"
    /\ last.status # "OK"
    /\ last.c.base_index_ >= 0
    /\ next_file_to_compact_by_size_[last.c.level] = 0
    /\ \E c \in Live : /\ c.level = last.c.level
                        /\ c.base_index_ >= 0
                        /\ SeedRank(c) > SeedRank(last.c)

-----------------------------------------------------------------------------
(* The lateral growth of SetupOtherInputs *)

\* The last call returned a compaction that went through SetupOtherInputs.
WentThroughSetup ==
    /\ version.style = kCompactionStyleLevel
    /\ last.op \in {"PickCompaction", "CompactRange"}
    /\ last.c # nullptr

\* C10: when SetupOtherInputs accepts the lateral growth of inputs_[0],
\* inputs_[1] is afterwards the same set of level+1 files, of the same size,
\* as before; when it does not, inputs_[0] and inputs_[1] are as before.
C10_GrowthKeepsParents ==
    WentThroughSetup =>
        IF last.growth.expanded
        THEN /\ SeqRange(last.c.inputs1) = SeqRange(last.growth.inputs1)
             /\ Len(last.c.inputs1) = Len(last.growth.inputs1)
        ELSE /\ last.c.inputs0 = last.growth.inputs0
             /\ last.c.inputs1 = last.growth.inputs1

\* A growth was accepted: inputs_[0] is longer than before, over files of
\* level+1.
C10_Witness ==
    /\ WentThroughSetup
    /\ last.growth.expanded
    /\ Len(last.c.inputs0) > Len(last.growth.inputs0)
    /\ last.c.inputs1 # <<>>

-----------------------------------------------------------------------------
(* The FIFO pick *)

\* The k oldest files of files_[0], oldest first.
OldestRun(k) == [j \in 1..k |-> FilesAt(0)[Len(FilesAt(0)) + 1 - j]]

\* The compensated size left in files_[0] once its k oldest files are gone.
LeftWithout(k) ==
    TotalCompensatedFileSize(SubSeq(FilesAt(0), 1, Len(FilesAt(0)) - k))

\* Level 0 is non-empty and over its cap, and no FIFO compaction is in flight.
FIFODue ==
    /\ Len(FilesAt(0)) > 0
    /\ LeftWithout(0) > version.options.max_table_files_size
    /\ compactions_in_progress_[0] = EmptyBag

\* The step is a call of the FIFO PickCompaction.
FIFOPickStep ==
    /\ version.style = kCompactionStyleFIFO
    /\ last'.op = "PickCompaction"

\* C11: the FIFO PickCompaction returns a compaction exactly when level 0 is
\* non-empty, over max_table_files_size and no FIFO compaction is in flight;
\* its inputs are then the shortest run of oldest files whose removal leaves
\* at most max_table_files_size of compensated size.
C11_FIFOPicksShortestOldestRun ==
    [][FIFOPickStep =>
          /\ last'.c # nullptr <=> FIFODue
          /\ last'.c # nullptr =>
                /\ last'.c.inputs1 = <<>>
                /\ \E k \in 1..Len(FilesAt(0)) :
                      /\ last'.c.inputs0 = OldestRun(k)
                      /\ LeftWithout(k) <= version.options.max_table_files_size
                      /\ \A j \in 0..(k - 1) :
                            LeftWithout(j) > version.options.max_table_files_size]_vars

\* A FIFO pick returned a run of more than one file that is not all of level 0.
C11_Witness ==
    /\ version.style = kCompactionStyleFIFO
    /\ last.op = "PickCompaction"
    /\ last.c # nullptr
    /\ Len(last.c.inputs0) > 1
    /\ Len(last.c.inputs0) < Len(FilesAt(0))
    /\ compactions_in_progress_[0] = SetToBag({last.c})

-----------------------------------------------------------------------------
(* The universal pick *)

\* The step is a call of the universal PickCompaction.
UniversalPickStep ==
    /\ version.style = kCompactionStyleUniversal
    /\ last'.op = "PickCompaction"

\* The candidates of the three sub-policies in the state the pick is made in.
SizeAmpCandidate == PickCompactionUniversalSizeAmp
SizeRatioCandidate ==
    PickCompactionUniversalReadAmp(version.universal.size_ratio, UINT_MAX)
FileCountCandidate ==
    PickCompactionUniversalReadAmp(UINT_MAX,
        Len(FilesAt(0)) - version.options.level0_file_num_compaction_trigger)

\* C12: the universal PickCompaction returns nothing when level 0 has fewer
\* files than level0_file_num_compaction_trigger; otherwise it returns the
\* candidate of the first of size-amplification, size-ratio and file-count
\* that yields one, and nothing if none does.
C12_FirstSubPolicyWins ==
    [][UniversalPickStep =>
          IF Len(FilesAt(0)) < version.options.level0_file_num_compaction_trigger
          THEN last'.c = nullptr
          ELSE /\ SizeAmpCandidate # nullptr =>
                     last'.c.inputs0 = SizeAmpCandidate.inputs0
               /\ SizeAmpCandidate = nullptr /\ SizeRatioCandidate # nullptr =>
                     last'.c.inputs0 = SizeRatioCandidate.inputs0
               /\ SizeAmpCandidate = nullptr /\ SizeRatioCandidate = nullptr
                     /\ FileCountCandidate # nullptr =>
                     last'.c.inputs0 = FileCountCandidate.inputs0
               /\ SizeAmpCandidate = nullptr /\ SizeRatioCandidate = nullptr
                     /\ FileCountCandidate = nullptr =>
                     last'.c = nullptr]_vars

\* A pick returned the file-count candidate: a run that stops before the
\* oldest file, as long as the file count allows, whose second file is too
\* large for the size ratio.
C12_Witness ==
    /\ version.style = kCompactionStyleUniversal
    /\ last.op = "PickCompaction"
    /\ last.c # nullptr
    /\ ~last.c.bottommost_level_
    /\ Len(last.c.inputs0) =
          Len(FilesAt(0)) - version.options.level0_file_num_compaction_trigger
    /\ Meta(last.c.inputs0[1]).compensated_file_size * (100 + version.universal.size_ratio)
          < Meta(last.c.inputs0[2]).file_size * 100

\* The first file of files_[0] that is not being compacted (0-based), or the
\* number of files if there is none.
FirstFree ==
    IF FreePositions(0, Len(FilesAt(0)) - 1) = {} THEN Len(FilesAt(0))
    ELSE Min(FreePositions(0, Len(FilesAt(0)) - 1))

\* C13: the size-amplification sub-policy yields a compaction exactly when,
\* after the leading files that are being compacted, no later file is being
\* compacted and candidate_size * 100 >= max_size_amplification_percent *
\* earliest_file_size, candidate_size being the compensated size of the files
\* from the first one not being compacted up to, not including, the oldest
\* and earliest_file_size the size of the oldest; the compaction then holds
\* the files from the first one not being compacted through the oldest.
C13_SizeAmpYieldsIffAmplified ==
    version.style = kCompactionStyleUniversal =>
        /\ PickCompactionUniversalSizeAmp # nullptr <=>
              /\ FirstFree < Len(FilesAt(0))
              /\ \A i \in (FirstFree + 1)..(Len(FilesAt(0)) - 1) :
                    ~being_compacted[FilesAt(0)[i + 1]]
              /\ TotalCompensatedFileSize(
                     SubSeq(FilesAt(0), FirstFree + 1, Len(FilesAt(0)) - 1)) * 100
                   >= version.universal.max_size_amplification_percent
                        * Meta(FilesAt(0)[Len(FilesAt(0))]).file_size
        /\ PickCompactionUniversalSizeAmp # nullptr =>
              PickCompactionUniversalSizeAmp.inputs0
                  = SubSeq(FilesAt(0), FirstFree + 1, Len(FilesAt(0)))

\* The two calls PickCompaction makes of PickCompactionUniversalReadAmp:
\* <<ratio, max_number_of_files_to_compact>>.  The second one has a number of
\* files to pass only once level 0 has reached the trigger.
ReadAmpCalls ==
    {<<version.universal.size_ratio, UINT_MAX>>}
    \cup (IF UnsignedBelow(Len(FilesAt(0)),
                           version.options.level0_file_num_compaction_trigger)
          THEN {}
          ELSE {<<UINT_MAX,
                  Len(FilesAt(0)) - version.options.level0_file_num_compaction_trigger>>})

\* The length of the run the sub-policy collects from the free position s.
RunFrom(s, call) ==
    ReadAmpCount(s + 1, 1, Meta(FilesAt(0)[s + 1]).compensated_file_size, call[1],
                 UnsignedMin(version.universal.max_merge_width, call[2]))

\* The run r is what the call may return: k files from position s.
RunIsAdmissible(r, call, s, k) ==
    /\ s + k <= Len(FilesAt(0))
    /\ r.inputs0 = SubSeq(FilesAt(0), s + 1, s + k)
    /\ \A f \in SeqRange(r.inputs0) : ~being_compacted[f]
    /\ k >= 2
    /\ k >= version.universal.min_merge_width
    /\ k <= version.universal.max_merge_width
    /\ call[2] # UINT_MAX => k <= call[2]
    /\ \A t \in 0..(s - 1) :
          ~being_compacted[FilesAt(0)[t + 1]] =>
              /\ RunFrom(t, call) < 2 \/ RunFrom(t, call) < version.universal.min_merge_width

\* C14: every run the size-ratio sub-policy returns is a contiguous slice of
\* files_[0], newest first, without a file that is being compacted, of length
\* at least max(2, min_merge_width) and at most min(max_merge_width,
\* max_number_of_files_to_compact), and it starts at the earliest position
\* from which the sub-policy collects a run of sufficient length.
C14_RunIsEarliestAdmissible ==
    version.style = kCompactionStyleUniversal =>
        \A call \in ReadAmpCalls :
            PickCompactionUniversalReadAmp(call[1], call[2]) # nullptr =>
                \E s \in 0..(Len(FilesAt(0)) - 1), k \in 1..Len(FilesAt(0)) :
                    RunIsAdmissible(PickCompactionUniversalReadAmp(call[1], call[2]),
                                    call, s, k)

\* A pick returned the run of the size-ratio pass: three files that start
\* after a free file, which the size ratio keeps out.
C14_Witness ==
    /\ version.style = kCompactionStyleUniversal
    /\ last.op = "PickCompaction"
    /\ last.c # nullptr
    /\ Len(last.c.inputs0) = 3
    /\ last.c.inputs0[1] = FilesAt(0)[2]
    /\ ~being_compacted[FilesAt(0)[1]]
    /\ Meta(FilesAt(0)[1]).compensated_file_size * (100 + version.universal.size_ratio)
          < Meta(FilesAt(0)[2]).file_size * 100

\* The last call is a universal PickCompaction that returned a compaction.
UniversalReturned ==
    /\ version.style = kCompactionStyleUniversal
    /\ last.op = "PickCompaction"
    /\ last.c # nullptr

\* files_[0] is newest first with pairwise disjoint sequence-number intervals.
FilesNewestFirst ==
    \A i, j \in 1..Len(FilesAt(0)) :
        /\ Meta(FilesAt(0)[i]).smallest_seqno <= Meta(FilesAt(0)[i]).largest_seqno
        /\ i < j => Meta(FilesAt(0)[i]).smallest_seqno > Meta(FilesAt(0)[j]).largest_seqno

\* C15: given files_[0] newest first with disjoint sequence-number intervals,
\* inputs_[0] of every compaction the universal PickCompaction returns is
\* newest first, each input's smallest_seqno above the largest_seqno of the
\* next, so the assertions of PickCompaction hold.
C15_InputsNewestFirst ==
    UniversalReturned /\ FilesNewestFirst =>
        /\ \A i \in 1..(Len(last.c.inputs0) - 1) :
              Meta(last.c.inputs0[i]).smallest_seqno
                  > Meta(last.c.inputs0[i + 1]).largest_seqno
        /\ UniversalAssertions(last.c)

\* A pick returned a run of at least three files that does not start at the
\* newest file.
C15_Witness ==
    /\ UniversalReturned
    /\ FilesNewestFirst
    /\ Len(last.c.inputs0) >= 3
    /\ last.c.inputs0[1] # FilesAt(0)[1]

\* C16: every compaction the universal PickCompaction returns has more than
\* one input file, has bottommost_level_ set exactly when the oldest level-0
\* file is an input, and has is_full_compaction_ set exactly when its inputs
\* are all the level-0 files.
C16_BottommostAndFull ==
    UniversalReturned =>
        /\ Len(last.c.inputs0) > 1
        /\ last.c.bottommost_level_
              <=> FilesAt(0)[Len(FilesAt(0))] \in SeqRange(last.c.inputs0)
        /\ last.c.is_full_compaction_
              <=> SeqRange(last.c.inputs0) = SeqRange(FilesAt(0))

\* A pick returned a compaction that holds the oldest file and not every file.
C16_Witness ==
    /\ UniversalReturned
    /\ FilesAt(0)[Len(FilesAt(0))] \in SeqRange(last.c.inputs0)
    /\ last.c.bottommost_level_
    /\ Len(last.c.inputs0) < Len(FilesAt(0))
    /\ ~last.c.is_full_compaction_

-----------------------------------------------------------------------------
(* The manual pick *)

\* Scenario S6 with no file being compacted, and the request it makes.
ScenarioS6 == version.name = "S6" /\ \A f \in FileNumbers : ~being_compacted[f]

S6Request(output_level) ==
    CompactRange(2, output_level, InternalKey(1, 0), InternalKey(6, 0))

\* C17: in scenario S6, CompactRange(level 2, begin=aa, end=ff) picks
\* inputs_[0] = {Q1} and sets *out_next_begin to cc, the smallest key of Q2:
\* the file that brings the accumulated size to the limit is left out.
C17_S6PicksQ1 ==
    [][\A output_level \in {2, 3} :
          ScenarioS6 /\ S6Request(output_level)
             => /\ last'.c.inputs0 = <<1>>
                /\ last'.compaction_end = Meta(2).smallest]_vars

\* C17 as the code has it: the batch is {Q1, Q2}, the file that brings the
\* accumulated size to the limit being its last, and *out_next_begin is ee,
\* the smallest key of Q3.
C17_S6PicksQ1Q2 ==
    [][\A output_level \in {2, 3} :
          ScenarioS6 /\ S6Request(output_level)
             => /\ last'.c.inputs0 = <<1, 2>>
                /\ last'.compaction_end = Meta(3).smallest]_vars

C17_Witness ==
    /\ version.name = "S6"
    /\ last.op = "CompactRange"
    /\ last.c.inputs0 = <<1, 2>>
    /\ last.compaction_end = Meta(3).smallest
    /\ \A f \in FileNumbers : being_compacted[f] <=> f \in {1, 2}

\* The files of input_level whose user-key range meets [begin, end], in the
\* order of the level, and what a batch leaves of them.
MeetsRequest(f, begin, end) ==
    /\ begin = Null \/ Meta(f).largest[1] >= begin[1]
    /\ end = Null \/ Meta(f).smallest[1] <= end[1]

LeftOut(input_level, begin, end, inputs0) ==
    SelectSeq(FilesAt(input_level),
              LAMBDA f : MeetsRequest(f, begin, end) /\ f \notin SeqRange(inputs0))

ManualReturns(input_level, output_level, begin, end) ==
    /\ last'.op = "CompactRange"
    /\ last'.c # nullptr
    /\ last'.c.level = input_level
    /\ last'.c.output_level = output_level
    /\ CompactRange(input_level, output_level, begin, end)

OutNextBegin(left) == IF left = <<>> THEN Null ELSE Meta(left[1]).smallest

\* C18: when CompactRange returns a compaction, *out_next_begin is null if
\* the batch covers every file of input_level that overlaps [begin, end], and
\* otherwise it is the smallest key of the first overlapping file the batch
\* leaves out; at input_level 0 nothing is left out.
C18_OutNextBegin ==
    [][\A input_level \in version.manual_levels, r \in ManualRanges :
         \A output_level \in {input_level, input_level + 1} \cap Levels :
            ManualReturns(input_level, output_level, r[1], r[2])
               => /\ last'.compaction_end =
                        OutNextBegin(LeftOut(input_level, r[1], r[2], last'.c.inputs0))
                  /\ input_level = 0
                        => LeftOut(input_level, r[1], r[2], last'.c.inputs0) = <<>>]_vars

\* The list the size cap works on: the files of input_level under the range
\* asked for (every file of the level in universal style), and the lengths
\* of its proper prefixes whose sizes add up to the limit or more.
ManualList(input_level, begin, end) ==
    IF version.style = kCompactionStyleUniversal
    THEN GetOverlappingInputs(input_level, Null, Null)
    ELSE GetOverlappingInputs(input_level, begin, end)

CapCuts(input_level, list) ==
    {k \in 1..(Len(list) - 1) :
        /\ input_level > 0
        /\ ~UnsignedBelow(TotalCompensatedFileSize(SubSeq(list, 1, k)),
                          MaxFileSizeForLevel(input_level)
                             * version.options.source_compaction_factor)}

CapKeeps(input_level, list) ==
    IF CapCuts(input_level, list) = {} THEN list
    ELSE SubSeq(list, 1, Min(CapCuts(input_level, list)))

OutNextBeginOfCap(list, kept) ==
    IF kept = list THEN Null ELSE Meta(list[Len(kept) + 1]).smallest

\* C18 as the code has it: when CompactRange returns a compaction,
\* *out_next_begin is null if the size cap kept every file overlapping
\* [begin, end] at input_level, and otherwise it is the smallest key of the
\* first file the size cap excluded, even when the expansion of the batch
\* pulls that file back into inputs_[0]; at input_level 0 the cap keeps every
\* file.  The batch returned holds every file the cap kept.
C18_OutNextBeginOfCap ==
    [][\A input_level \in version.manual_levels, r \in ManualRanges :
         \A output_level \in {input_level, input_level + 1} \cap Levels :
            ManualReturns(input_level, output_level, r[1], r[2])
               => /\ last'.compaction_end =
                        OutNextBeginOfCap(ManualList(input_level, r[1], r[2]),
                            CapKeeps(input_level, ManualList(input_level, r[1], r[2])))
                  /\ SeqRange(CapKeeps(input_level, ManualList(input_level, r[1], r[2])))
                        \subseteq SeqRange(last'.c.inputs0)
                  /\ input_level = 0 => last'.compaction_end = Null]_vars

\* A manual compaction whose batch was cut by the size cap and grown again
\* over the file the cap had left out.
C18_Witness ==
    /\ last.op = "CompactRange"
    /\ last.c # nullptr
    /\ last.c.level > 0
    /\ \E f \in SeqRange(last.c.inputs0) : Meta(f).smallest = last.compaction_end

-----------------------------------------------------------------------------
(* The sanitizer *)

Sanitized == last.op = "SanitizeCompactionInputFiles"

LegalOutputLevel(output_level) ==
    /\ output_level < NumberLevels
    /\ output_level <= MaxOutputLevel
    /\ output_level >= 0 \/ output_level = kDeletionCompaction

BusyFiles == {f \in FileNumbers : being_compacted[f]}

\* The positions in the list of level l of the files of T.
TakenAt(l, T) == {i \in 1..Len(FilesAt(l)) : FilesAt(l)[i] \in T}

\* The files of T of the levels 0..k.
TakenUpTo(k, T) == {g \in T : Meta(g).level <= k}

\* The positions of level l that a set T of files draws in: those between two
\* files of T, above level 0 the neighbours of a file of T that leave no clean
\* cut of user keys, and the files whose user-key range meets the bounding
\* user-key range of the files of T of the levels up to some level above l
\* that holds a file of T.
DrawnAt(l, T) ==
    {i \in 1..Len(FilesAt(l)) :
        \/ /\ TakenAt(l, T) # {}
           /\ i >= Min(TakenAt(l, T))
           /\ i <= Max(TakenAt(l, T))
        \/ /\ l > 0
           /\ i + 1 \in TakenAt(l, T)
           /\ FileLargestKey(FilesAt(l)[i]) >= FileSmallestKey(FilesAt(l)[i + 1])
        \/ /\ l > 0
           /\ i - 1 \in TakenAt(l, T)
           /\ FileSmallestKey(FilesAt(l)[i]) <= FileLargestKey(FilesAt(l)[i - 1])
        \/ \E k \in 0..(l - 1) :
              /\ TakenAt(k, T) # {}
              /\ FileLargestKey(FilesAt(l)[i])
                    >= Min({FileSmallestKey(g) : g \in TakenUpTo(k, T)})
              /\ FileSmallestKey(FilesAt(l)[i])
                    <= Max({FileLargestKey(g) : g \in TakenUpTo(k, T)})}

\* The least set of files of the levels 0..output_level that holds T and
\* every file it draws in.
RECURSIVE DrawnIn(_, _)
DrawnIn(T, output_level) ==
    IF \A l \in 0..output_level : {FilesAt(l)[i] : i \in DrawnAt(l, T)} \subseteq T
    THEN T
    ELSE DrawnIn(T \cup UNION {{FilesAt(l)[i] : i \in DrawnAt(l, T)} : l \in 0..output_level},
                 output_level)

\* The files of the levels 0..output_level that are asked for or pulled in,
\* whatever their flags.
RequestedOrPulledIn(requested, output_level) ==
    DrawnIn({f \in requested \cap FileNumbers : Meta(f).level <= output_level},
            output_level)

\* The file numbers asked for that do not pass the last loop.
Unfit(requested) == {f \in requested : f \notin FileNumbers \/ being_compacted[f]}

\* C19 as the specification has it: SanitizeCompactionInputFiles returns OK
\* only if the output level is legal, the set asked for is not empty, every
\* file number of the resulting set exists and none of its files is being
\* compacted; an illegal output level, an empty set or an unknown file number
\* yields InvalidArgument, and a file asked for or pulled in that is being
\* compacted yields Aborted.
C19_SanitizeStatus ==
    Sanitized =>
      /\ last.status = "OK" =>
            /\ LegalOutputLevel(last.output_level)
            /\ last.requested # {}
            /\ last.input_files \subseteq FileNumbers
            /\ last.input_files \cap BusyFiles = {}
      /\ \/ ~LegalOutputLevel(last.output_level)
         \/ last.requested = {}
         \/ ~(last.requested \subseteq FileNumbers)
         => last.status = "InvalidArgument"
      /\ \/ last.requested \cap BusyFiles # {}
         \/ /\ LegalOutputLevel(last.output_level)
            /\ RequestedOrPulledIn(last.requested, last.output_level) \cap BusyFiles # {}
         => last.status = "Aborted"

\* C19, with the order in which the faults are looked for:
\* SanitizeCompactionInputFiles returns OK only if the output level is legal,
\* the set asked for is not empty, every file number of the resulting set
\* exists and none of its files is being compacted, and the resulting set is
\* then the set asked for with the files pulled in; an illegal output level or
\* an empty set yields InvalidArgument; otherwise a file of a level up to the
\* output level that is asked for or pulled in and is being compacted yields
\* Aborted; otherwise the smallest file number asked for that is unknown or
\* being compacted decides: unknown yields InvalidArgument, being compacted
\* Aborted.
C19_SanitizeStatusInOrder ==
    Sanitized =>
      /\ last.status \in {"OK", "InvalidArgument", "Aborted"}
      /\ last.status = "OK" =>
            /\ LegalOutputLevel(last.output_level)
            /\ last.requested # {}
            /\ last.input_files \subseteq FileNumbers
            /\ last.input_files \cap BusyFiles = {}
            /\ last.input_files
                  = last.requested
                      \cup RequestedOrPulledIn(last.requested, last.output_level)
      /\ ~LegalOutputLevel(last.output_level) \/ last.requested = {}
            => last.status = "InvalidArgument"
      /\ LegalOutputLevel(last.output_level) /\ last.requested # {} =>
            IF RequestedOrPulledIn(last.requested, last.output_level) \cap BusyFiles # {}
            THEN last.status = "Aborted"
            ELSE IF Unfit(last.requested) = {}
            THEN last.status = "OK"
            ELSE IF Min(Unfit(last.requested)) \in FileNumbers
            THEN last.status = "Aborted"
            ELSE last.status = "InvalidArgument"

\* A request with an unknown file number and a file that pulls in a file
\* being compacted: the call returns Aborted.
C19_Witness ==
    /\ Sanitized
    /\ LegalOutputLevel(last.output_level)
    /\ ~(last.requested \subseteq FileNumbers)
    /\ last.requested \cap BusyFiles = {}
    /\ RequestedOrPulledIn(last.requested, last.output_level) \cap BusyFiles # {}
    /\ last.status = "Aborted"

\* C20: when SanitizeCompactionInputFiles returns OK with the set S', a second
\* run on S' with the same column family and output level returns OK and
\* leaves the set equal to S'.
C20_SanitizeIdempotent ==
    Sanitized /\ last.status = "OK" =>
       /\ SanitizeCompactionInputFiles(last.input_files, last.output_level).status = "OK"
       /\ SanitizeCompactionInputFiles(last.input_files, last.output_level).input_files
             = last.input_files

\* The second run on a set the first run had grown.
C20_Witness ==
    /\ Sanitized
    /\ last.status = "OK"
    /\ last.requested = last.input_files
    /\ Cardinality(last.input_files) > MaxInputFiles

-----------------------------------------------------------------------------
(* The inputs from file numbers *)

GotInputs == last.op = "GetCompactionInputsFromFileNumbers"

\* The 1-based position of file f in the Version's list of its level.
PositionInLevel(f) ==
    CHOOSE i \in 1..Len(FilesAt(Meta(f).level)) : FilesAt(Meta(f).level)[i] = f

\* A list of one level: files of that level only, in the Version's order.
InVersionOrder(l) ==
    /\ \A i \in 1..Len(l.files) : Meta(l.files[i]).level = l.level
    /\ \A i, j \in 1..Len(l.files) :
          i < j => PositionInLevel(l.files[i]) < PositionInLevel(l.files[j])

\* C21: for a set of file numbers that all exist in the Version,
\* GetCompactionInputsFromFileNumbers returns OK and per-level lists in
\* ascending level order that hold exactly those files in the Version's file
\* order, and the call on the file numbers of the lists yields the same lists;
\* an empty set or a file number absent from the Version yields
\* InvalidArgument.
C21_InputsRoundTrip ==
    GotInputs =>
      /\ last.status = "OK" <=> last.requested # {} /\ last.requested \subseteq FileNumbers
      /\ last.status # "OK" => last.status = "InvalidArgument"
      /\ last.status = "OK" =>
            /\ \A i, j \in 1..Len(last.input_files) :
                  i < j => last.input_files[i].level < last.input_files[j].level
            /\ \A i \in 1..Len(last.input_files) : InVersionOrder(last.input_files[i])
            /\ ToFileNumbers(last.input_files) = last.requested
            /\ GetCompactionInputsFromFileNumbers(ToFileNumbers(last.input_files)).status
                  = "OK"
            /\ GetCompactionInputsFromFileNumbers(ToFileNumbers(last.input_files)).input_files
                  = last.input_files

\* Lists of two levels with a level between them that gave no file.
C21_Witness ==
    /\ GotInputs
    /\ last.status = "OK"
    /\ Len(last.input_files) = 3
    /\ last.input_files[2].files = <<>>
    /\ Len(last.input_files[1].files) + Len(last.input_files[3].files) = 2

-----------------------------------------------------------------------------
(* Calls that return nothing *)

ReturnedNothing ==
    /\ last'.op \in {"PickCompaction", "CompactRange"}
    /\ last'.c = nullptr

\* C22: whenever PickCompaction or CompactRange of any strategy returns no
\* compaction, every file's being_compacted flag and every
\* compactions_in_progress_ set are as before the call.
C22_NothingReturnedNothingChanged ==
    [][ReturnedNothing =>
          /\ being_compacted' = being_compacted
          /\ compactions_in_progress_' = compactions_in_progress_]_vars

\* A CompactRange of the leveled picker that gave its candidate up: the size
\* cap had cut the inputs (*compaction_end was written), the expansion failed
\* on a file of a live compaction, and files of the level were free to be
\* marked.
C22_Witness ==
    /\ version.style = kCompactionStyleLevel
    /\ last.op = "CompactRange"
    /\ last.c = nullptr
    /\ last.compaction_end \notin {NotSet, Null}
    /\ live # EmptyBag
    /\ \E f \in FileNumbers :
          /\ Meta(f).smallest = last.compaction_end
          /\ ~being_compacted[f]

-----------------------------------------------------------------------------
(* The seed and the cursor of PickCompactionBySize *)

\* The file at position i of files_by_size_[level].
FileBySize(level, i) == FilesAt(level)[version.files_by_size_[level][i + 1] + 1]

\* C23: the file PickCompactionBySize(level) seeds is the first file of
\* files_by_size_[level], from the cursor on, that is not being compacted and
\* whose overlapping files at level+1 are all not being compacted; if no file
\* from the cursor on is such a file it returns nothing.  Called in any state
\* the leveled picker reaches, at any level that has a level below it.
C23_SeedIsFirstFreeWithFreeParents ==
    version.style = kCompactionStyleLevel =>
      \A level \in ScoredLevels :
         /\ PickCompactionBySize(level).c # nullptr =>
               /\ SeedRanks(level) # {}
               /\ PickCompactionBySize(level).c.inputs0 = <<SeedOf(level)>>
         /\ SeedRanks(level) = {} => PickCompactionBySize(level).c = nullptr

\* A compaction of a level above 0 seeded with a file that is not the
\* largest of its level, the largest being held by another compaction.
C23_Witness ==
    /\ version.style = kCompactionStyleLevel
    /\ last.op = "PickCompaction"
    /\ last.c # nullptr
    /\ last.c.level > 0
    /\ FileBySize(last.c.level, 0) \notin SeqRange(last.c.inputs0)
    /\ being_compacted[FileBySize(last.c.level, 0)]
    /\ FilesAt(last.c.level)[last.c.base_index_ + 1] \in SeqRange(last.c.inputs0)

\* The positions of files_by_size_[level], from the cursor on, whose file is
\* not being compacted.
FreeRanks(level) ==
    {i \in 0..(Len(version.files_by_size_[level]) - 1) :
        /\ next_file_to_compact_by_size_[level] >= 0
        /\ i >= next_file_to_compact_by_size_[level]
        /\ ~being_compacted[FileBySize(level, i)]}

\* C24: after a PickCompactionBySize(level) call that scans a level whose
\* score warrants a compaction, the
\* cursor next_file_to_compact_by_size_[level] is the position in
\* files_by_size_[level] of the first file at or after the previous cursor
\* that was not being compacted during the scan, hence a valid position to
\* start the next scan from.
C24_CursorIsFirstFree ==
    version.style = kCompactionStyleLevel =>
      \A level \in ScoredLevels :
         Warranted(level)
           /\ ~(level = 0 /\ BagCardinality(compactions_in_progress_[0]) = 1) =>
            /\ FreeRanks(level) # {}
            /\ PickCompactionBySize(level).nextIndex = Min(FreeRanks(level))
            /\ PickCompactionBySize(level).nextIndex
                  \in 0..(Len(version.files_by_size_[level]) - 1)

-----------------------------------------------------------------------------
(* The expansion to a clean cut *)

\* The last call was an ExpandWhileOverlapping.
Expanded == last.op = "ExpandWhileOverlapping"

\* The files of the level whose user-key range overlaps the bounding range
\* of the files S.
UnderHull(level, S) == {g \in SeqRange(FilesAt(level)) : MeetsHull(g, S)}

\* The loop made at most as many passes as the level has files, each pass
\* left a superset of what it found, and the last pass is what is returned.
PassesGrow ==
    /\ Len(last.passes) <= Len(FilesAt(last.c.level))
    /\ \A i \in 1..Len(last.passes) :
          SeqRange(IF i = 1 THEN last.seed ELSE last.passes[i - 1])
             \subseteq SeqRange(last.passes[i])
    /\ last.ok /\ last.passes # <<>> =>
          last.c.inputs0 = last.passes[Len(last.passes)]

\* C25 as stated: the loop makes at most as many passes as the level has
\* files, each leaving a superset of inputs_[0], and on return true, at
\* whatever level, inputs_[0] is exactly the set of files of the level that
\* overlap its bounding range and contains the seed files.
C25_ExpandClosesEveryLevel ==
    Expanded =>
       /\ PassesGrow
       /\ last.ok =>
             /\ SeqRange(last.c.inputs0)
                   = UnderHull(last.c.level, SeqRange(last.c.inputs0))
             /\ SeqRange(last.seed) \subseteq SeqRange(last.c.inputs0)

\* C25, amended: the loop makes at most as many passes as the level has
\* files, each leaving a superset of inputs_[0]; on return true inputs_[0]
\* contains the seed files and, at a level above 0, is exactly the set of
\* files of the level that overlap its bounding range.
C25_ExpandClosesAboveLevel0 ==
    Expanded =>
       /\ PassesGrow
       /\ last.ok =>
             /\ last.c.level > 0 =>
                   SeqRange(last.c.inputs0)
                      = UnderHull(last.c.level, SeqRange(last.c.inputs0))
             /\ SeqRange(last.seed) \subseteq SeqRange(last.c.inputs0)

\* A call above level 0 that returned true after a pass that grew the set.
C25_Witness ==
    /\ Expanded
    /\ last.ok
    /\ last.c.level > 0
    /\ Len(last.passes) >= 2
    /\ Len(last.c.inputs0) > Len(last.seed)

\* The least set of files of the level that holds S and every file of the
\* level overlapping its bounding range.
HullClosure(level, S) ==
    CHOOSE E \in SUBSET SeqRange(FilesAt(level)) :
        /\ S \subseteq E
        /\ UnderHull(level, E) \subseteq E
        /\ \A T \in SUBSET E :
              (S \subseteq T /\ UnderHull(level, T) \subseteq T) => T = E

\* The call reported in call, of a Compaction of a level above 0, must be
\* refused: the expanded inputs_[0] is empty or holds a file being compacted,
\* or the output level is the next one and a file of it under the expanded
\* range is being compacted.
MustRefuse(call) ==
    \/ HullClosure(call.c.level, SeqRange(call.seed)) = {}
    \/ Busy(HullClosure(call.c.level, SeqRange(call.seed)))
    \/ /\ call.c.level # call.c.output_level
       /\ Busy(ParentsOf(call.c.level,
                         HullClosure(call.c.level, SeqRange(call.seed))))

\* C26: at a level above 0 ExpandWhileOverlapping returns false exactly when
\* the expanded inputs_[0] is empty, or holds a file being compacted, or
\* level != output_level and a level+1 file overlapping the expanded range is
\* being compacted; when it returns false inputs_[0] and inputs_[1] are empty
\* and no being_compacted flag has changed.
C26_ExpandRefusesExactly ==
    [][(last'.op = "ExpandWhileOverlapping" /\ last'.c.level > 0) =>
          /\ ~last'.ok <=> MustRefuse(last')
          /\ ~last'.ok =>
                /\ last'.c.inputs0 = <<>>
                /\ last'.c.inputs1 = <<>>
                /\ being_compacted' = being_compacted]_vars

\* A call above level 0 refused only because of level+1: the expanded
\* inputs_[0] is larger than the seed and free, a file under it is not.
C26_Witness ==
    /\ Expanded
    /\ last.c.level > 0
    /\ ~last.ok
    /\ Len(last.passes) >= 2
    /\ ~Busy(HullClosure(last.c.level, SeqRange(last.seed)))
    /\ Cardinality(HullClosure(last.c.level, SeqRange(last.seed))) > Len(last.seed)
    /\ Busy(ParentsOf(last.c.level, HullClosure(last.c.level, SeqRange(last.seed))))

-----------------------------------------------------------------------------
(* The size of an accepted growth *)

\* The total compensated size of the files S.
RECURSIVE CompensatedSize(_)
CompensatedSize(S) ==
    IF S = {} THEN 0
    ELSE Meta(Min(S)).compensated_file_size + CompensatedSize(S \ {Min(S)})

\* Some user key lies on both sides of the boundary of the files S of the
\* level: a file outside S starts at the user key a file of S ends with, or
\* ends at the user key a file of S starts with.
KeySplit(level, S) ==
    \E g \in SeqRange(FilesAt(level)) \ S, f \in S :
       \/ Meta(g).largest[1] = Meta(f).smallest[1]
       \/ Meta(g).smallest[1] = Meta(f).largest[1]

\* The call reported in call went through SetupOtherInputs and came back
\* with more files in inputs_[0] than it went in with.
GrewInputs0(call) ==
    /\ version.style = kCompactionStyleLevel
    /\ call.op \in {"PickCompaction", "CompactRange"}
    /\ call.c # nullptr
    /\ Len(call.c.inputs0) > Len(call.growth.inputs0)

\* C27: SetupOtherInputs replaces inputs_[0] by a larger set only if the
\* compensated size of the larger set plus inputs_[1] is strictly below
\* ExpandedCompactionByteSizeLimit(level), no file of the larger set is being
\* compacted and no user key is split across its boundary; after an accepted
\* growth the compensated size of inputs_[0] and inputs_[1] together is
\* below that limit.
C27_GrowthBelowLimit ==
    [][GrewInputs0(last') =>
          /\ SeqRange(last'.growth.inputs0) \subseteq SeqRange(last'.c.inputs0)
          /\ CompensatedSize(SeqRange(last'.c.inputs0))
               + CompensatedSize(SeqRange(last'.growth.inputs1))
               < ExpandedCompactionByteSizeLimit(last'.c.level)
          /\ \A f \in SeqRange(last'.c.inputs0) : ~being_compacted[f]
          /\ ~KeySplit(last'.c.level, SeqRange(last'.c.inputs0))
          /\ CompensatedSize(SeqRange(last'.c.inputs0))
               + CompensatedSize(SeqRange(last'.c.inputs1))
               < ExpandedCompactionByteSizeLimit(last'.c.level)]_vars

\* An accepted growth: inputs_[0] came back larger, with files under it at
\* level+1.
C27_Witness ==
    /\ GrewInputs0(last)
    /\ last.growth.expanded
    /\ last.c.inputs1 # <<>>
    /\ being_compacted[last.c.inputs0[Len(last.c.inputs0)]]

-----------------------------------------------------------------------------
(* The level-0 step of the leveled pick *)

\* The step is a leveled PickCompaction that returned a level-0 compaction.
Level0Returned ==
    /\ LevelPickStep
    /\ last'.c # nullptr
    /\ last'.c.level = 0

\* C28 as stated: a level-0 compaction returned by the leveled PickCompaction
\* has inputs_[0] equal to the level-0 files overlapping the seed file's
\* user-key range, with no level-1 file under the bounding range of that
\* inputs_[0] being compacted at pick time; if one was, PickCompaction
\* returns nothing.
C28_Level0IsSeedOverlaps ==
    [][/\ Level0Returned =>
            /\ SeqRange(last'.c.inputs0) = UnderHull(0, {SeedOf(0)})
            /\ ~Busy(ParentsOf(0, SeqRange(last'.c.inputs0)))
       /\ (LevelPickStep /\ FirstYielding(0)
             /\ Busy(ParentsOf(0, UnderHull(0, {SeedOf(0)})))) =>
            last'.c = nullptr]_vars

\* C28, amended: a level-0 compaction returned by the leveled PickCompaction
\* has inputs_[0] containing the level-0 files overlapping the seed file's
\* user-key range: SetupOtherInputs is given the files GetOverlappingInputs
\* returns for that range (the least set of level-0 files around the seed
\* that no other level-0 file overlaps), and inputs_[0] is that set unless
\* SetupOtherInputs replaced it by a larger one.  No level-1 file under the
\* bounding range of either set was being compacted at pick time; if one
\* under the former was, PickCompaction returns nothing.
C28_Level0ContainsSeedOverlaps ==
    [][/\ Level0Returned =>
            /\ UnderHull(0, {SeedOf(0)}) \subseteq SeqRange(last'.c.inputs0)
            /\ SeqRange(last'.growth.inputs0) = HullClosure(0, {SeedOf(0)})
            /\ ~GrewInputs0(last') => last'.c.inputs0 = last'.growth.inputs0
            /\ ~Busy(ParentsOf(0, SeqRange(last'.growth.inputs0)))
            /\ ~Busy(ParentsOf(0, SeqRange(last'.c.inputs0)))
       /\ (LevelPickStep /\ FirstYielding(0)
             /\ Busy(ParentsOf(0, HullClosure(0, {SeedOf(0)})))) =>
            last'.c = nullptr]_vars

\* A level-0 compaction was returned whose inputs_[0] holds a file that
\* does not overlap the seed but a file that does, and a file added by
\* SetupOtherInputs.
C28_Witness ==
    /\ version.style = kCompactionStyleLevel
    /\ last.op = "PickCompaction"
    /\ last.c # nullptr
    /\ last.c.level = 0
    /\ \E f \in SeqRange(last.growth.inputs0) :
          ~MeetsHull(f, {FilesAt(0)[last.c.base_index_ + 1]})
    /\ GrewInputs0(last)

-----------------------------------------------------------------------------
(* The runs of the size-ratio and file-count sub-policies *)

\* candidate_size when file j of the run is looked at: the compensated sizes
\* of the files before it under the total-size stop style, the compensated
\* size of the file just before it under the similar-size stop style.
CandidateSize(run, j) ==
    IF version.universal.stop_style = kCompactionStopStyleSimilarSize
    THEN Meta(run[j - 1]).compensated_file_size
    ELSE CompensatedSize(SeqRange(SubSeq(run, 1, j - 1)))

\* File f may follow a run whose candidate size is candidate_size:
\* next_file_size <= candidate_size * (100 + ratio) / 100 and, under the
\* similar-size stop style, next_file_size * (100 + ratio) / 100 >=
\* candidate_size, next_file_size being the size of f.
Admitted(f, candidate_size, ratio) ==
    /\ Meta(f).file_size * 100 <= candidate_size * (100 + ratio)
    /\ version.universal.stop_style = kCompactionStopStyleSimilarSize =>
          Meta(f).file_size * (100 + ratio) >= candidate_size * 100

\* The 0-based position in files_[0] of the file after the run.
PositionAfter(run) ==
    (CHOOSE i \in 1..Len(FilesAt(0)) : FilesAt(0)[i] = run[Len(run)])

\* Every file of the run after the first was admitted, and the file after
\* the run, if the run was not cut short by max_merge_width, by a file being
\* compacted or by the end of files_[0], was not.
RunFollowsRatio(run, ratio) ==
    /\ \A j \in 2..Len(run) : Admitted(run[j], CandidateSize(run, j), ratio)
    /\ (/\ Len(run) < version.universal.max_merge_width
        /\ PositionAfter(run) < Len(FilesAt(0))
        /\ ~being_compacted[FilesAt(0)[PositionAfter(run) + 1]]) =>
          ~Admitted(FilesAt(0)[PositionAfter(run) + 1],
                    CandidateSize(run \o <<FilesAt(0)[PositionAfter(run) + 1]>>,
                                  Len(run) + 1),
                    ratio)

\* C29: in every run picked by the size-ratio sub-policy each file after the
\* first satisfies next_file_size <= candidate_size * (100 + ratio) / 100,
\* with candidate_size the running sum of the compensated sizes of the files
\* already in the run (total-size stop) or the compensated size of the file
\* just before (similar-size stop), under similar-size also next_file_size *
\* (100 + ratio) / 100 >= candidate_size, and the run stops at the first file
\* violating either condition.
C29_RunFollowsRatio ==
    (/\ version.style = kCompactionStyleUniversal
     /\ Len(FilesAt(0)) >= version.options.level0_file_num_compaction_trigger
     /\ SizeRatioCandidate # nullptr) =>
        RunFollowsRatio(SizeRatioCandidate.inputs0, version.universal.size_ratio)

\* PickCompaction returned a run of three files under the similar-size stop
\* style, one of them with a compensated size above its size, that stopped
\* at a free file too small to follow.
C29_Witness ==
    /\ UniversalReturned
    /\ version.universal.stop_style = kCompactionStopStyleSimilarSize
    /\ Len(last.c.inputs0) = 3
    /\ \E f \in SeqRange(last.c.inputs0) :
          Meta(f).compensated_file_size > Meta(f).file_size
    /\ PositionAfter(last.c.inputs0) < Len(FilesAt(0))
    /\ ~being_compacted[FilesAt(0)[PositionAfter(last.c.inputs0) + 1]]
    /\ Meta(FilesAt(0)[PositionAfter(last.c.inputs0) + 1]).file_size
          * (100 + version.universal.size_ratio)
          < Meta(last.c.inputs0[3]).compensated_file_size * 100

-----------------------------------------------------------------------------
(* The file-count sub-policy *)

\* The call PickCompaction makes of PickCompactionUniversalReadAmp for the
\* file-count sub-policy: <<ratio, max_number_of_files_to_compact>>.
FileCountCall ==
    <<UINT_MAX, Len(FilesAt(0)) - version.options.level0_file_num_compaction_trigger>>

\* The number of neighbouring free files of files_[0] from the free position s.
FreeStretch(s) ==
    Min({k \in 1..(Len(FilesAt(0)) - s) :
            \/ s + k = Len(FilesAt(0))
            \/ being_compacted[FilesAt(0)[s + k + 1]]})

\* The length of the run from position s when every next file that is not
\* being compacted is accepted: the run ends at a file being compacted, at
\* the end of files_[0] or at max_files_to_compact files.
RunOfAnyFree(s, max_files_to_compact) ==
    Max({1, Min({FreeStretch(s), max_files_to_compact})})

\* C30: the file-count sub-policy runs only when the size-amplification and
\* size-ratio sub-policies both yielded nothing; from each position it
\* accepts every next file that is not being compacted, whatever the sizes;
\* and the run it picks has at most |files_[0]| -
\* level0_file_num_compaction_trigger files.
C30_FileCountTakesAnyFreeFile ==
    [][(/\ UniversalPickStep
        /\ Len(FilesAt(0)) >= version.options.level0_file_num_compaction_trigger) =>
          /\ SizeAmpCandidate # nullptr =>
                last'.c.inputs0 = SizeAmpCandidate.inputs0
          /\ (SizeAmpCandidate = nullptr /\ SizeRatioCandidate # nullptr) =>
                last'.c.inputs0 = SizeRatioCandidate.inputs0
          /\ (SizeAmpCandidate = nullptr /\ SizeRatioCandidate = nullptr) =>
                /\ \A s \in FreePositions(0, Len(FilesAt(0)) - 1) :
                      RunFrom(s, FileCountCall) =
                          RunOfAnyFree(s,
                              UnsignedMin(version.universal.max_merge_width,
                                          FileCountCall[2]))
                /\ (last'.c = nullptr) <=> (FileCountCandidate = nullptr)
                /\ last'.c # nullptr =>
                      /\ last'.c.inputs0 = FileCountCandidate.inputs0
                      /\ Len(last'.c.inputs0) <= FileCountCall[2]]_vars

-----------------------------------------------------------------------------
(* The windows and the closure of a sanitized set *)

\* The 1-based positions in files_[l] of the files of the resulting set.
WindowAt(l) == {i \in 1..Len(FilesAt(l)) : FilesAt(l)[i] \in last.input_files}

\* The sanitizer returned OK for a legal output level.
SanitizedOK == Sanitized /\ last.status = "OK"

\* C31: when the sanitizer returns OK, at every level l of 0..output_level
\* that holds a file of the resulting set the resulting files form one
\* contiguous index window of the level's file list, and for l > 0 the file
\* just before the window has a largest key below the smallest key of the
\* window's first file and the file just after it a smallest key above the
\* largest key of the window's last file.
C31_WindowPerLevel ==
    SanitizedOK =>
       \A l \in 0..last.output_level :
          WindowAt(l) # {} =>
             /\ WindowAt(l) = Min(WindowAt(l))..Max(WindowAt(l))
             /\ (l > 0 /\ Min(WindowAt(l)) > 1) =>
                   FileLargestKey(FilesAt(l)[Min(WindowAt(l)) - 1])
                      < FileSmallestKey(FilesAt(l)[Min(WindowAt(l))])
             /\ (l > 0 /\ Max(WindowAt(l)) < Len(FilesAt(l))) =>
                   FileSmallestKey(FilesAt(l)[Max(WindowAt(l)) + 1])
                      > FileLargestKey(FilesAt(l)[Max(WindowAt(l))])

\* An OK run whose window at a level above 0 grew over a neighbour on its
\* right that was not asked for, sharing a boundary user key with a file
\* asked for, and that stops before an end of the level.
C31_Witness ==
    /\ SanitizedOK
    /\ \E l \in 1..last.output_level :
          /\ WindowAt(l) # {}
          /\ FilesAt(l)[Max(WindowAt(l))] \notin last.requested
          /\ \E i \in WindowAt(l) :
                /\ FilesAt(l)[i] \in last.requested
                /\ i + 1 \in WindowAt(l)
                /\ FileSmallestKey(FilesAt(l)[i + 1]) = FileLargestKey(FilesAt(l)[i])
          /\ \/ Max(WindowAt(l)) < Len(FilesAt(l))
             \/ Min(WindowAt(l)) > 1

\* The resulting files of the levels 0..l.
ResultUpTo(l) == {f \in last.input_files \cap FileNumbers : Meta(f).level <= l}

\* The user-key range of file f meets the bounding user-key range of the
\* files of S.
MeetsBounds(f, S) ==
    /\ FileLargestKey(f) >= Min({FileSmallestKey(g) : g \in S})
    /\ FileSmallestKey(f) <= Max({FileLargestKey(g) : g \in S})

\* C32: when the sanitizer returns OK, for all levels l < m <= output_level
\* where l holds a file of the resulting set, every file of level m whose
\* user-key range overlaps the bounding user-key range of the resulting files
\* of the levels up to l is in the resulting set.
C32_LowerLevelsClosed ==
    SanitizedOK =>
       \A l \in 0..last.output_level :
          WindowAt(l) # {} =>
             \A m \in (l + 1)..last.output_level :
                \A f \in SeqRange(FilesAt(m)) :
                   MeetsBounds(f, ResultUpTo(l)) => f \in last.input_files

\* An OK run that took a file of a lower level which overlaps none of the
\* files asked for: it lies under the window the sanitizer grew around them.
C32_Witness ==
    /\ SanitizedOK
    /\ \E l \in 0..last.output_level :
          /\ WindowAt(l) # {}
          /\ \E m \in (l + 1)..last.output_level :
                \E f \in SeqRange(FilesAt(m)) :
                   /\ f \in last.input_files
                   /\ f \notin last.requested
                   /\ MeetsBounds(f, ResultUpTo(l))
                   /\ \A g \in last.requested : ~MeetsBounds(f, {g})

-----------------------------------------------------------------------------
(* The path GetPathId returns *)

RECURSIVE SumOfTargets(_, _)
\* The target sizes of the paths before the 0-based index p, summed.
SumOfTargets(db_paths, p) ==
    IF p = 0 THEN 0 ELSE db_paths[p] + SumOfTargets(db_paths, p - 1)

\* Path p (0-based) can hold the file and leaves room for its future size.
PathQualifies(db_paths, file_size, size_ratio, p) ==
    /\ db_paths[p + 1] > file_size
    /\ (SumOfTargets(db_paths, p) + (db_paths[p + 1] - file_size)) * 100
          > file_size * (100 - size_ratio)

QualifyingPaths(db_paths, file_size, size_ratio) ==
    {p \in 0..(Len(db_paths) - 1) : PathQualifies(db_paths, file_size, size_ratio, p)}

PathReturned == last.op = "GetPathId"

\* C33: GetPathId returns the smallest path index p such that target_size[p]
\* > file_size and the target sizes of the paths before p plus target_size[p]
\* - file_size exceed file_size * (100 - size_ratio) / 100, and the last path
\* index when no path qualifies; the result is a valid index into db_paths,
\* for every size_ratio including values above 100.
C33_PathIsFirstFit ==
    PathReturned =>
       /\ last.path_id \in 0..(Len(last.db_paths) - 1)
       /\ last.path_id =
             IF QualifyingPaths(last.db_paths, last.file_size, last.size_ratio) = {}
             THEN Len(last.db_paths) - 1
             ELSE Min(QualifyingPaths(last.db_paths, last.file_size, last.size_ratio))

-----------------------------------------------------------------------------
(* The files of a tiered pick *)

\* The candidates of the three sub-policies that exist in this state.
SubPolicyCandidates ==
    {SizeAmpCandidate, SizeRatioCandidate, FileCountCandidate} \ {nullptr}

\* The oldest file of the column family.
OldestFile == FilesAt(0)[Len(FilesAt(0))]

\* C34: in every state reached by tiered PickCompaction and
\* ReleaseCompactionFiles calls, newer files being added in front of level 0
\* in between, no sub-policy yields a compaction holding a file whose
\* being_compacted flag is set; the size-amplification sub-policy never takes
\* the oldest file while it belongs to a live compaction.
C34_TieredTakesNoBusyFile ==
    (/\ version.style = kCompactionStyleUniversal
     /\ Len(FilesAt(0)) >= version.options.level0_file_num_compaction_trigger) =>
        /\ \A c \in SubPolicyCandidates :
              \A f \in SeqRange(c.inputs0) : ~being_compacted[f]
        /\ SizeAmpCandidate # nullptr =>
              \A c \in Live : OldestFile \notin SeqRange(c.inputs0)
        /\ \A c \in Live : CopiesIn(c, live) = 1
        /\ \A c1, c2 \in Live :
              c1 # c2 => SeqRange(c1.inputs0) \cap SeqRange(c2.inputs0) = {}

\* PickCompaction returned a run of the newer files, one of them added after
\* an earlier pick, while a live compaction holds the oldest file and the
\* files but the oldest amount to more than the size-amplification limit.
C34_Witness ==
    /\ UniversalReturned
    /\ FlushedFiles \cap SeqRange(last.c.inputs0) # {}
    /\ \E c \in Live : c # last.c /\ OldestFile \in SeqRange(c.inputs0)
    /\ TotalCompensatedFileSize(SubSeq(FilesAt(0), 1, Len(FilesAt(0)) - 1)) * 100
          >= version.universal.max_size_amplification_percent
                * Meta(OldestFile).file_size

-----------------------------------------------------------------------------
(* The files of a manual compaction *)

\* The step is a CompactRange of the leveled or the universal picker that
\* returns a compaction.
ManualReturned ==
    /\ version.style # kCompactionStyleFIFO
    /\ last'.op = "CompactRange"
    /\ last'.c # nullptr

\* C35: every file of inputs_[0] and inputs_[1] of a compaction returned by
\* CompactRange, whatever the style and the input level, was not being
\* compacted immediately before the call, automatic compactions being live or
\* not: CompactRange returns nothing rather than take a file that a live
\* compaction holds.
C35_ManualTakesNoBusyFile ==
    [][ManualReturned =>
          \A f \in SeqRange(last'.c.inputs0) \cup SeqRange(last'.c.inputs1) :
             ~being_compacted[f]]_vars

-----------------------------------------------------------------------------
(* The picker once every compaction is released *)

\* Every compaction handed out has been passed to ReleaseCompactionFiles.
AllReleased == live = EmptyBag

\* C36: if every compaction returned by PickCompaction or CompactRange is
\* passed to ReleaseCompactionFiles exactly once, then once all of them are
\* released no file has being_compacted set and every
\* compactions_in_progress_ set is empty, whatever the order of the picks and
\* the releases and whatever the statuses.
C36_AllReleasedAllClear ==
    AllReleased =>
       /\ \A f \in FileNumbers : ~being_compacted[f]
       /\ \A l \in DOMAIN compactions_in_progress_ : compactions_in_progress_[l] = EmptyBag

\* The last compaction out, a manual one of level 0 that took files of level
\* 1, is released with a failure.
C36_Witness ==
    /\ AllReleased
    /\ last.op = "ReleaseCompactionFiles"
    /\ last.status # "OK"
    /\ last.c.is_manual_compaction_
    /\ last.c.level = 0
    /\ last.c.inputs1 # <<>>

====
